---- MODULE Spec2Model ----
(***************************************************************************)
(* A model of the hb-os build-and-launch orchestrator: the dm-verity guest *)
(* image builder (GuestSetup), the recipe template scope, the build_guest  *)
(* pipeline, the release packager, the launch composer and the CLI         *)
(* boundary.  Each component has its own specification over the variables  *)
(* of the module; the variables of the other components stay idle.         *)
(***************************************************************************)
EXTENDS Integers, Sequences, FiniteSets, TLC

VARIABLES
    \* ---- every component ----
    pc,                     \* position of the running operation inside its code
    exc,                    \* the exception that is propagating ("none" when none)
    \* ---- build_guest_image and GuestSetup (src/core/setup_guest.py) ----
    env,                    \* the run's inputs: debug, non_interactive, host/image LVM layout
    resources_initialized,  \* self.resources_initialized
    folders,                \* the temporary directories that exist (src_folder, dst_folder)
    initial_lvm_devices,    \* self.initial_lvm_devices
    src_root_fs_device,     \* self.src_root_fs_device
    nbd_loaded,             \* host: the nbd kernel module is loaded
    nbd_attached,           \* host: NBD devices with an image attached
    mounts,                 \* host: scratch directories with a filesystem mounted
    mapper,                 \* host: /dev/mapper/snpguard_root exists
    lv_active,              \* host: paths of the logical volumes that are active
    lv_deactivated,         \* host: paths handed to lvchange -an / vgchange -an by the run
    log,                    \* the external commands the run has executed, in order
    root_hash_file,         \* the file out_root_hash
    ret,                    \* value returned by setup() (NoValue before it returns)
    vm_config_file,         \* the VM descriptor (config.vm_config_file)
    \* ---- DockerfileTemplateProcessor (src/services/docker_service.py) ----
    dockerfile,             \* the recipe file on disk
    dockerfile_before,      \* the recipe file as it was when the scope was entered
    original_content,       \* original_content of managed_template (NoValue is None)
    \* ---- package_release (src/services/release_manager.py) ----
    existing,               \* the paths of the build tree that exist on disk
    release_dir,            \* base names of the files in ./release
    release_vm_config,      \* the descriptor written into ./release
    archive,                \* release.tar.gz
    \* ---- VM launch (src/core/vm_manager.py, src/facades/vm_facade.py) ----
    launch_in,              \* entry point, mode, options and the artifacts present
    command,                \* the composed launch command (<<>> before it is composed)
    executed,               \* the launch command has been handed to run_command
    launch_error,           \* the error the caller received and the paths it names
    \* ---- secure-mode rewrite of /etc/passwd (src/core/setup_guest.py) ----
    passwd,                 \* the destination's /etc/passwd, one entry per line
    passwd_before,          \* /etc/passwd as it was before hardening
    \* ---- CLI boundary (src/cli/cli_handler.py) ----
    cli_in,                 \* the subcommand, its arguments and what its run does
    exit_code,              \* exit status of the process (NoExit while it runs)
    \* ---- build entry points (build_orchestrator.py, build_facade.py) ----
    build_in,               \* the entry point that runs and the stage it builds
    \* ---- create_vm_config_file (src/core/create_vm_config.py) ----
    cfg_in,                 \* the arguments of the call and what the host answers
    cfg_out,                \* the file written, the warnings printed, the error raised
    \* ---- run_command (src/utils/utils.py) ----
    rc_in,                  \* the arguments of the call and how the command ends
    rc_out,                 \* what the call returned or raised
    \* ---- container scopes (docker_service.py, build_initramfs.py) ----
    ct_in,                  \* the scope that runs and how the engine answers
    ct_out,                 \* the engine commands issued and the error that propagates
    \* ---- SNPBuildOrchestrator.create_release_package (src/core/snp_builder.py) ----
    pkg_in,                 \* the directories the call finds
    pkg_out,                \* the output directory, the archive and the value returned
    \* ---- GuestSetup._create_output_image (src/core/setup_guest.py) ----
    img_in,                 \* the virtual size of the source and how qemu-img prints it
    img_out,                \* the size handed to qemu-img create
    \* ---- two setup_guest runs on one host (src/core/setup_guest.py) ----
    runs,                   \* per run: its position and what it believes it holds
    shared                  \* the host both runs see: nbd module, attachments, mounts

guestVars == <<env, pc, exc, resources_initialized, folders, initial_lvm_devices,
               src_root_fs_device, nbd_loaded, nbd_attached, mounts, mapper,
               lv_active, lv_deactivated, log, root_hash_file, ret, vm_config_file>>

templateVars == <<dockerfile, dockerfile_before, original_content>>

releaseVars == <<existing, release_dir, release_vm_config, archive>>

launchVars == <<launch_in, command, executed, launch_error>>

passwdVars == <<passwd, passwd_before>>

cliVars == <<cli_in, exit_code>>

moreVars == <<ct_in, ct_out, pkg_in, pkg_out, img_in, img_out, runs, shared>>

toolVars == <<build_in, cfg_in, cfg_out, rc_in, rc_out, moreVars>>

\* the variables of the components other than build_guest_image / GuestSetup
nonGuestVars == <<templateVars, releaseVars, launchVars, passwdVars, cliVars, toolVars>>

vars == <<guestVars, nonGuestVars>>

(***************************************************************************)
(* Bounds of the model.                                                    *)
(***************************************************************************)
MaxHostLVs == 1
MaxImageLVs == 2

(***************************************************************************)
(* LVM layouts.  A logical volume is a record of its LV Path, its VG Name  *)
(* and whether a filesystem on it is in use (lvchange -an then refuses).   *)
(***************************************************************************)
HostPool == << [path |-> "/dev/hvg/data", vg |-> "hvg"],
               [path |-> "/dev/hvg2/data", vg |-> "hvg2"] >>

ImagePool == << [path |-> "/dev/gvg/root", vg |-> "gvg"],
                [path |-> "/dev/gvg/swap", vg |-> "gvg"],
                [path |-> "/dev/gvg2/data", vg |-> "gvg2"] >>

Min(a, b) == IF a < b THEN a ELSE b

HostLayouts == { SubSeq(HostPool, 1, n) : n \in 0..Min(MaxHostLVs, Len(HostPool)) }

ImageLayouts == { SubSeq(ImagePool, 1, n) : n \in 0..Min(MaxImageLVs, Len(ImagePool)) }
                \cup { <<ImagePool[1], ImagePool[3]>> }

Range(s) == { s[i] : i \in 1..Len(s) }

Paths(s) == { s[i].path : i \in 1..Len(s) }

\* config.debug: the build's boolean debug option as the string handed to setup_guest
ConfigDebug(b) == IF b THEN "1" ELSE "0"

\* the listing printed by `sudo lvdisplay`: the host's volumes and, while the
\* source image is attached, the image's volumes; the order of the volume
\* groups is the tool's, not the order in which they appeared
Lvdisplay == LET img == IF "nbd0" \in nbd_attached THEN env.image_lvs ELSE <<>>
             IN IF env.host_first THEN env.host_lvs \o img ELSE img \o env.host_lvs

\* proc.stdout.count("LV Path")
LvCount == Len(Lvdisplay)

(***************************************************************************)
(* GuestSetup: the commands of each stage.  A command is its name and      *)
(* whether a non-zero exit raises (check=True / check_output / run_command)*)
(***************************************************************************)
Cmd(n) == [name |-> n, check |-> TRUE]

CmdNoCheck(n) == [name |-> n, check |-> FALSE]

Names(cmds) == [i \in 1..Len(cmds) |-> cmds[i].name]

\* GuestSetup._configure_secure_mode
ConfigureSecureMode ==
    << Cmd("ssh_disable"), Cmd("ssh_mask"), Cmd("passwd_nologin"),
       Cmd("getty_tty_disable_mask"), Cmd("serial_getty_disable_mask"),
       Cmd("grub_console_none"), CmdNoCheck("tty_nodes_disabled"),
       CmdNoCheck("dmesg_console_off") >>

\* GuestSetup._configure_debug_mode
ConfigureDebugMode ==
    << Cmd("root_password"), Cmd("sshd_permit_root_login"), Cmd("ssh_enable") >>

\* GuestSetup._finalize_filesystem_structure
FinalizeFilesystemStructure ==
    << Cmd("rm_tmp"), Cmd("mv_root_ro"), Cmd("mv_etc_ro"), Cmd("mv_var_ro"),
       Cmd("mkdir_home_etc_var_tmp"), Cmd("cp_root_ro_root") >>

\* the mutation that tests the option's boolean spelling
SecureSelectedBool(debug) == debug = "False"

\* the test `self.debug == "0"` of _prepare_verity_fs and _copy_hyperbeam_components
SecureSelected(debug) == debug = "0"

\* the mutation that renames root, etc and var before the hardening edits
PrepareVerityFsCmds_remap_first(debug) ==
    << CmdNoCheck("rm_ssh_host_keys") >>
    \o FinalizeFilesystemStructure
    \o (IF SecureSelected(debug) THEN ConfigureSecureMode ELSE ConfigureDebugMode)

\* GuestSetup._prepare_verity_fs
PrepareVerityFsCmds(debug) ==
    << CmdNoCheck("rm_ssh_host_keys") >>
    \o (IF SecureSelected(debug) THEN ConfigureSecureMode ELSE ConfigureDebugMode)
    \o FinalizeFilesystemStructure

\* GuestSetup._copy_hyperbeam_components
CopyHyperbeamCmds(debug) ==
    << Cmd("rsync_hb") >>
    \o (IF SecureSelected(debug)
        THEN << Cmd("rsync_hyperbeam_service"), Cmd("enable_hyperbeam_service") >>
        ELSE << >>)

Exceptions == {"GuestSetupError", "KeyboardInterrupt"}

\* the except clauses of GuestSetup.setup: a failed command becomes a
\* GuestSetupError, a keyboard interrupt passes through; either way the
\* with-statement of setup_guest runs __exit__ next
Raise(e) == /\ exc' = e
            /\ pc' = "exit"

\* run the commands of one stage in order: all succeed, or the k-th one
\* fails or is interrupted after the ones before it completed
RunCmds(cmds, next) ==
    \/ /\ log' = log \o Names(cmds)
       /\ pc' = next
       /\ exc' = exc
    \/ \E k \in 1..Len(cmds), e \in Exceptions :
          /\ e = "GuestSetupError" => cmds[k].check
          /\ log' = log \o Names(SubSeq(cmds, 1, k - 1))
          /\ Raise(e)

hostVars == <<nbd_loaded, nbd_attached, mounts, mapper, lv_active, lv_deactivated>>

selfVars == <<resources_initialized, folders, initial_lvm_devices, src_root_fs_device>>

outVars == <<root_hash_file, ret, vm_config_file>>

(***************************************************************************)
(* Text.  A text is a sequence of one-character strings.                   *)
(***************************************************************************)
Whitespace == {" ", "\n", "\t", "\r"}

RECURSIVE LStrip(_, _)
LStrip(s, chars) == IF s # <<>> /\ Head(s) \in chars THEN LStrip(Tail(s), chars) ELSE s

RECURSIVE RStrip(_, _)
RStrip(s, chars) == IF s # <<>> /\ s[Len(s)] \in chars
                    THEN RStrip(SubSeq(s, 1, Len(s) - 1), chars)
                    ELSE s

\* str.strip()
Strip(s) == RStrip(LStrip(s, Whitespace), Whitespace)

MaxHashLen == 2

HexDigits == {"a", "7"}

HexStrings == UNION { [1..n -> HexDigits] : n \in 1..MaxHashLen }

\* what `veritysetup format ... | grep Root | cut -f2` prints when veritysetup
\* succeeds: the hex value of the "Root hash:" line and a line break
RootLines == { h \o <<"\n">> : h \in HexStrings }

\* root_hash_value.strip().rstrip('%') of GuestSetup._compute_hash_tree
RootHashValue(output) == RStrip(Strip(output), {"%"})

Absent == [exists |-> FALSE, content |-> <<>>]

File(text) == [exists |-> TRUE, content |-> text]

NoValue == [returned |-> FALSE, value |-> <<>>]

Returned(text) == [returned |-> TRUE, value |-> text]

(***************************************************************************)
(* The VM descriptor written by setup_vm_config.  A path is a directory    *)
(* and a base name; a kernel command line is a sequence of words followed  *)
(* by the characters of the root hash.                                     *)
(***************************************************************************)
Path(d, b) == [dir |-> d, base |-> b]

NoPath == Path("", "")

\* config.kernel_vmlinuz: a glob pattern
kernel_vmlinuz == Path("build/kernel/boot", "vmlinuz-*")

ovmf == Path("build/snp-release/usr/local/share/qemu", "DIRECT_BOOT_OVMF.fd")

initrd == Path("build", "initramfs.cpio.gz")

\* VMConfig.cmdline
cmdline == << "console=ttyS0", "earlyprintk=serial", "root=/dev/sda" >>

Unknown == << "u", "n", "k", "n", "o", "w", "n" >>

\* the word that precedes the root hash on the kernel command line
RoothashKey == "verity_roothash="

\* the mutation of verity_params that never reads the root hash file
verity_params_unread(file) ==
    << "boot=verity", "verity_disk=/dev/sdb", RoothashKey >> \o Unknown

\* config.verity_params: f.read().strip() of the root hash file, "unknown"
\* when it cannot be read
verity_params(file) ==
    << "boot=verity", "verity_disk=/dev/sdb", RoothashKey >>
    \o (IF file.exists THEN Strip(file.content) ELSE Unknown)

NoDescriptor == [exists |-> FALSE, ovmf_file |-> NoPath, kernel_file |-> NoPath,
                 initrd_file |-> NoPath, kernel_cmdline |-> <<>>]

Descriptor(o, k, i, c) == [exists |-> TRUE, ovmf_file |-> o, kernel_file |-> k,
                           initrd_file |-> i, kernel_cmdline |-> c]

\* what glob.glob(kernel_path) can return: nothing, one kernel, or two
\* kernels in either order
GlobResults ==
    LET k1 == Path(kernel_vmlinuz.dir, "vmlinuz-6.9.0-snp")
        k2 == Path(kernel_vmlinuz.dir, "vmlinuz-6.11.0-snp")
    IN { <<>>, <<k1>>, <<k1, k2>>, <<k2, k1>> }

\* create_vm_config_file: the pattern is replaced by the first match; the
\* `cat` late binding rewrites verity_roothash='...' only, a quoted form that
\* the command line built by setup_vm_config does not contain
create_vm_config_file(ovmf_path, kernel_path, initrd_path, kernel_cmdline, matches) ==
    Descriptor(ovmf_path,
               IF matches # <<>> THEN matches[1] ELSE kernel_path,
               initrd_path,
               kernel_cmdline)

\* a descriptor left by an earlier build
StaleDescriptor ==
    create_vm_config_file(ovmf, kernel_vmlinuz, initrd,
                          cmdline \o verity_params(File(<<"7">>)), <<>>)

\* no recipe is being processed
IdleTemplate ==
    /\ dockerfile = Absent
    /\ dockerfile_before = Absent
    /\ original_content = NoValue

(***************************************************************************)
(* GuestSetup: the initial states.  The object has been constructed by     *)
(* setup_guest and __enter__ has not run yet.                              *)
(***************************************************************************)
Envs ==
    { e \in [debug : BOOLEAN, non_interactive : BOOLEAN,
             host_lvs : HostLayouts, image_lvs : ImageLayouts,
             host_first : BOOLEAN, host_busy : BOOLEAN,
             fdisk : {"found", "none"}] :
        /\ e.host_lvs = <<>> => (e.host_first /\ ~e.host_busy)
        /\ e.image_lvs # <<>> => e.fdisk = "found" }

\* no build_guest_image run is in progress
IdleGuest ==
    /\ env = CHOOSE e \in Envs : ~e.debug /\ ~e.non_interactive /\ e.host_lvs = <<>>
                                  /\ e.image_lvs = <<>> /\ e.fdisk = "found"
    /\ resources_initialized = FALSE
    /\ folders = {}
    /\ initial_lvm_devices = 0
    /\ src_root_fs_device = ""
    /\ nbd_loaded = FALSE
    /\ nbd_attached = {}
    /\ mounts = {}
    /\ mapper = FALSE
    /\ lv_active = {}
    /\ lv_deactivated = {}
    /\ log = <<>>
    /\ root_hash_file = Absent
    /\ ret = NoValue
    /\ vm_config_file = NoDescriptor

guestOnlyVars == <<env, selfVars, hostVars, log, outVars>>

nonTemplateVars == <<guestOnlyVars, releaseVars, launchVars, passwdVars, cliVars, toolVars>>

\* no release is being packaged
NoArchive == [exists |-> FALSE, files |-> {}]

IdleRelease ==
    /\ existing = {}
    /\ release_dir = {}
    /\ release_vm_config = NoDescriptor
    /\ archive = NoArchive

\* no launch is in progress
NoError == [raised |-> FALSE, listed |-> {}]

IdleLaunch ==
    /\ launch_in = [entry |-> "none"]
    /\ command = <<>>
    /\ executed = FALSE
    /\ launch_error = NoError

\* no passwd file is being rewritten
IdlePasswd ==
    /\ passwd = <<>>
    /\ passwd_before = <<>>

\* the process has not exited
NoExit == [exited |-> FALSE, code |-> 0]

\* no CLI process is running
IdleCli ==
    /\ cli_in = [target |-> "none"]
    /\ exit_code = NoExit

\* no call is in progress
NoCall == [entry |-> "none"]

\* no build entry point is running
IdleBuild == build_in = NoCall

\* no descriptor is being written
IdleVmConfig ==
    /\ cfg_in = NoCall
    /\ cfg_out = NoCall

\* no command is being run
IdleRunCommand ==
    /\ rc_in = NoCall
    /\ rc_out = NoCall

\* no container scope, no SNP package, no sizing and no second run is in progress
IdleMore ==
    /\ ct_in = NoCall /\ ct_out = NoCall
    /\ pkg_in = NoCall /\ pkg_out = NoCall
    /\ img_in = NoCall /\ img_out = NoCall
    /\ runs = NoCall /\ shared = NoCall

IdleTools == IdleBuild /\ IdleVmConfig /\ IdleRunCommand /\ IdleMore

InitGuest ==
    /\ env \in Envs
    /\ pc = "init"
    /\ exc = "none"
    /\ resources_initialized = FALSE
    /\ folders = {}
    /\ initial_lvm_devices = 0
    /\ src_root_fs_device = ""
    /\ nbd_loaded = FALSE
    /\ nbd_attached = {}
    /\ mounts = {}
    /\ mapper \in BOOLEAN
    /\ lv_active = Paths(env.host_lvs)
    /\ lv_deactivated = {}
    /\ log = <<>>
    /\ root_hash_file \in {Absent, File(<<"7">>)}
    /\ ret = NoValue
    /\ vm_config_file \in {NoDescriptor, StaleDescriptor}
    /\ IdleTemplate
    /\ IdleRelease
    /\ IdleLaunch
    /\ IdlePasswd
    /\ IdleCli
    /\ IdleTools

\* self.debug as passed by setup_verity and BuildFacade._setup_verity
self_debug == ConfigDebug(env.debug)

(***************************************************************************)
(* Exit statuses and error codes                                           *)
(***************************************************************************)
Exited(code) == [exited |-> TRUE, code |-> code]

\* the subclasses of HyperBeamError
HyperBeamErrors == { "ConfigurationError", "BuildError", "DependencyError", "VMError",
                     "DockerError", "FileSystemError", "SecurityError", "GuestSetupError",
                     "CommandExecutionError" }

\* exit statuses of a failed external command
CommandStatuses == { 1, 127 }

\* error_code of each error class; CommandExecutionError carries the exit
\* status of the command that failed
error_code(kind, status) ==
    CASE kind = "ConfigurationError" -> 2
      [] kind = "BuildError" -> 3
      [] kind = "DependencyError" -> 4
      [] kind = "VMError" -> 5
      [] kind = "DockerError" -> 6
      [] kind = "FileSystemError" -> 7
      [] kind = "SecurityError" -> 8
      [] kind = "GuestSetupError" -> 9
      [] kind = "CommandExecutionError" -> status

\* the mutation of main's except clauses that lets `except Exception` see
\* the keyboard interrupt
main_except_interrupt_unexpected(exception, status) ==
    IF exception \in HyperBeamErrors THEN Exited(error_code(exception, status))
    ELSE Exited(255)

\* the except clauses of main around dispatch_command: HyperBeamError,
\* KeyboardInterrupt, Exception
main_except(exception, status) ==
    IF exception \in HyperBeamErrors THEN Exited(error_code(exception, status))
    ELSE IF exception = "KeyboardInterrupt" THEN Exited(130)
    ELSE Exited(255)

(***************************************************************************)
(* GuestSetup.__enter__                                                    *)
(***************************************************************************)
Enter ==
    /\ pc = "init"
    /\ \/ /\ folders' = {"src", "dst"}
          /\ resources_initialized' = TRUE
          /\ pc' = "create_output_image"
          /\ exc' = exc
       \/ \* the second mkdtemp fails: _cleanup(), then GuestSetupError
          /\ folders' = {"src"}
          /\ resources_initialized' = FALSE
          /\ pc' = "terminal"
          /\ exc' = "GuestSetupError"
    /\ UNCHANGED <<nonGuestVars, env, initial_lvm_devices, src_root_fs_device, hostVars, log, outVars>>

(***************************************************************************)
(* GuestSetup.setup, stage by stage                                        *)
(***************************************************************************)
CreateOutputImage ==
    /\ pc = "create_output_image"
    /\ RunCmds(<< Cmd("qemu_img_info"), Cmd("qemu_img_create") >>, "check_lvm")
    /\ UNCHANGED <<nonGuestVars, env, selfVars, hostVars, outVars>>

\* _initialize_nbd: _check_lvm
CheckLvm ==
    /\ pc = "check_lvm"
    /\ \/ /\ initial_lvm_devices' = LvCount
          /\ log' = Append(log, "check_lvm")
          /\ pc' = "modprobe"
          /\ exc' = exc
       \/ /\ Raise("KeyboardInterrupt")
          /\ UNCHANGED <<initial_lvm_devices, log>>
    /\ UNCHANGED <<nonGuestVars, env, resources_initialized, folders, src_root_fs_device, hostVars, outVars>>

\* _initialize_nbd: modprobe nbd max_part=8
ModprobeNbd ==
    /\ pc = "modprobe"
    /\ \/ /\ nbd_loaded' = TRUE
          /\ log' = Append(log, "modprobe_nbd")
          /\ pc' = "connect_src"
          /\ exc' = exc
       \/ \E e \in Exceptions : Raise(e) /\ UNCHANGED <<nbd_loaded, log>>
    /\ UNCHANGED <<nonGuestVars, env, selfVars, nbd_attached, mounts, mapper, lv_active, lv_deactivated, outVars>>

\* _initialize_nbd: qemu-nbd --connect=/dev/nbd0 src_image; the volume
\* groups of the image are activated when its partitions appear
ConnectSrc ==
    /\ pc = "connect_src"
    /\ \/ /\ nbd_attached' = nbd_attached \cup {"nbd0"}
          /\ lv_active' = lv_active \cup Paths(env.image_lvs)
          /\ log' = Append(log, "connect_src")
          /\ pc' = "connect_dst"
          /\ exc' = exc
       \/ \E e \in Exceptions : Raise(e) /\ UNCHANGED <<nbd_attached, lv_active, log>>
    /\ UNCHANGED <<nonGuestVars, env, selfVars, nbd_loaded, mounts, mapper, lv_deactivated, outVars>>

\* _initialize_nbd: qemu-nbd --connect=/dev/nbd1 dst_image
ConnectDst ==
    /\ pc = "connect_dst"
    /\ \/ /\ nbd_attached' = nbd_attached \cup {"nbd1"}
          /\ log' = Append(log, "connect_dst")
          /\ pc' = "find_root_fs"
          /\ exc' = exc
       \/ \E e \in Exceptions : Raise(e) /\ UNCHANGED <<nbd_attached, log>>
    /\ UNCHANGED <<nonGuestVars, env, selfVars, nbd_loaded, mounts, mapper, lv_active, lv_deactivated, outVars>>

\* what the regex of _find_root_fs_device extracts from the fdisk listing
FdiskDevice == IF env.fdisk = "found" THEN "/dev/nbd0p1" ELSE ""

\* _find_root_fs_device (with _get_lvm_device)
FindRootFsDevice ==
    /\ pc = "find_root_fs"
    /\ \/ \* lvdisplay warns, or fdisk fails, or the run is interrupted
          \E e \in Exceptions : Raise(e) /\ UNCHANGED <<src_root_fs_device, log>>
       \/ \* the listing grew: the last LV Path is taken
          /\ LvCount > initial_lvm_devices
          /\ src_root_fs_device' = Lvdisplay[LvCount].path
          /\ log' = Append(log, "find_root_fs")
          /\ pc' = "mkfs"
          /\ exc' = exc
       \/ \* no new volume: the first "Linux filesystem" partition of fdisk
          /\ ~(LvCount > initial_lvm_devices)
          /\ src_root_fs_device' = FdiskDevice
          /\ log' = Append(log, "find_root_fs")
          /\ pc' = IF env.non_interactive \/ FdiskDevice # "" THEN "mkfs" ELSE "prompt"
          /\ exc' = exc
    /\ UNCHANGED <<nonGuestVars, env, resources_initialized, folders, initial_lvm_devices, hostVars, outVars>>

\* _find_root_fs_device: input("Enter device containing the root filesystem: ")
Prompt ==
    /\ pc = "prompt"
    /\ \/ \* the user names a device that exists
          /\ src_root_fs_device' = "/dev/nbd0"
          /\ pc' = "mkfs"
          /\ exc' = exc
       \/ \* the user names no existing device, or interrupts
          \E e \in Exceptions : Raise(e) /\ UNCHANGED src_root_fs_device
    /\ UNCHANGED <<nonGuestVars, env, resources_initialized, folders, initial_lvm_devices, hostVars, log, outVars>>

\* mkfs.ext4 on the destination device
MkfsDst ==
    /\ pc = "mkfs"
    /\ RunCmds(<< Cmd("mkfs_ext4_dst") >>, "mount_src")
    /\ UNCHANGED <<nonGuestVars, env, selfVars, hostVars, outVars>>

\* mount src_root_fs_device src_folder
MountSrc ==
    /\ pc = "mount_src"
    /\ \/ /\ src_root_fs_device # ""
          /\ mounts' = mounts \cup {"src"}
          /\ log' = Append(log, "mount_src")
          /\ pc' = "mount_dst"
          /\ exc' = exc
       \/ \E e \in Exceptions : Raise(e) /\ UNCHANGED <<mounts, log>>
    /\ UNCHANGED <<nonGuestVars, env, selfVars, nbd_loaded, nbd_attached, mapper, lv_active, lv_deactivated, outVars>>

\* mount dst_device dst_folder
MountDst ==
    /\ pc = "mount_dst"
    /\ \/ /\ mounts' = mounts \cup {"dst"}
          /\ log' = Append(log, "mount_dst")
          /\ pc' = "copy"
          /\ exc' = exc
       \/ \E e \in Exceptions : Raise(e) /\ UNCHANGED <<mounts, log>>
    /\ UNCHANGED <<nonGuestVars, env, selfVars, nbd_loaded, nbd_attached, mapper, lv_active, lv_deactivated, outVars>>

\* _copy_filesystem
CopyFilesystem ==
    /\ pc = "copy"
    /\ RunCmds(<< Cmd("rsync_filesystem") >>, "copy_hyperbeam")
    /\ UNCHANGED <<nonGuestVars, env, selfVars, hostVars, outVars>>

\* _copy_hyperbeam_components
CopyHyperbeamComponents ==
    /\ pc = "copy_hyperbeam"
    /\ RunCmds(CopyHyperbeamCmds(self_debug), "prepare_verity_fs")
    /\ UNCHANGED <<nonGuestVars, env, selfVars, hostVars, outVars>>

\* _prepare_verity_fs
PrepareVerityFs ==
    /\ pc = "prepare_verity_fs"
    /\ RunCmds(PrepareVerityFsCmds(self_debug), "unmount")
    /\ UNCHANGED <<nonGuestVars, env, selfVars, hostVars, outVars>>

\* the mutation of the unmount stage that leaves the destination mounted
UnmountImages_src_only ==
    /\ pc = "unmount"
    /\ \/ /\ mounts' = mounts \ {"src"}
          /\ log' = log \o <<"umount_src">>
          /\ pc' = "compute_hash_tree"
          /\ exc' = exc
       \/ \E e \in Exceptions : Raise(e) /\ UNCHANGED <<mounts, log>>
       \/ \E e \in Exceptions :
             /\ mounts' = mounts \ {"src"}
             /\ log' = Append(log, "umount_src")
             /\ Raise(e)
    /\ UNCHANGED <<nonGuestVars, env, selfVars, nbd_loaded, nbd_attached, mapper, lv_active, lv_deactivated, outVars>>

\* umount -q src_folder; umount -q dst_folder
UnmountImages ==
    /\ pc = "unmount"
    /\ \/ /\ mounts' = mounts \ {"src", "dst"}
          /\ log' = log \o <<"umount_src", "umount_dst">>
          /\ pc' = "compute_hash_tree"
          /\ exc' = exc
       \/ \E e \in Exceptions : Raise(e) /\ UNCHANGED <<mounts, log>>
       \/ \E e \in Exceptions :
             /\ mounts' = mounts \ {"src"}
             /\ log' = Append(log, "umount_src")
             /\ Raise(e)
    /\ UNCHANGED <<nonGuestVars, env, selfVars, nbd_loaded, nbd_attached, mapper, lv_active, lv_deactivated, outVars>>

\* _compute_hash_tree: the exit status of the shell pipeline is that of cut,
\* so a failing veritysetup gives an empty output and no CalledProcessError
ComputeHashTree ==
    /\ pc = "compute_hash_tree"
    /\ \/ \E out \in RootLines :
             /\ root_hash_file' = File(RootHashValue(out))
             /\ ret' = Returned(RootHashValue(out))
             /\ log' = log \o <<"veritysetup_format", "write_root_hash">>
             /\ pc' = "exit"
             /\ exc' = exc
       \/ /\ root_hash_file' = File(RootHashValue(<<>>))
          /\ ret' = Returned(RootHashValue(<<>>))
          /\ log' = log \o <<"veritysetup_failed", "write_root_hash">>
          /\ pc' = "exit"
          /\ exc' = exc
       \/ \E e \in Exceptions : Raise(e) /\ UNCHANGED <<root_hash_file, ret, log>>
    /\ UNCHANGED <<nonGuestVars, env, selfVars, hostVars, vm_config_file>>

(***************************************************************************)
(* GuestSetup._cleanup (run by __exit__)                                   *)
(***************************************************************************)
\* lvchange -an refuses a volume whose filesystem is in use
Busy(path) == env.host_busy /\ path \in Paths(env.host_lvs)

\* _unmount_lvm_device: when the listing is longer than it was at _check_lvm,
\* the last "LV Path" is handed to lvchange -an and the last "VG Name" to
\* vgchange -an, which reaches every volume of that group
UnmountLvmTargets ==
    IF LvCount > initial_lvm_devices
    THEN LET last == Lvdisplay[LvCount]
         IN {last.path} \cup { lv.path : lv \in { l \in Range(Lvdisplay) : l.vg = last.vg } }
    ELSE {}

\* the mutation of _cleanup that unloads the module before it disconnects
\* the devices
CleanupLog_module_first ==
    (IF "src" \in folders THEN <<"cleanup_umount_src", "cleanup_rmtree_src">> ELSE <<>>)
    \o (IF "dst" \in folders THEN <<"cleanup_umount_dst", "cleanup_rmtree_dst">> ELSE <<>>)
    \o (IF mapper THEN <<"cleanup_luks_close">> ELSE <<>>)
    \o (IF UnmountLvmTargets # {} THEN <<"cleanup_lvchange_an", "cleanup_vgchange_an">> ELSE <<>>)
    \o <<"cleanup_modprobe_r_nbd">>
    \o (IF nbd_loaded
        THEN <<"cleanup_disconnect_nbd0", "cleanup_disconnect_nbd1", "cleanup_sleep">>
        ELSE <<>>)

CleanupLog ==
    (IF "src" \in folders THEN <<"cleanup_umount_src", "cleanup_rmtree_src">> ELSE <<>>)
    \o (IF "dst" \in folders THEN <<"cleanup_umount_dst", "cleanup_rmtree_dst">> ELSE <<>>)
    \o (IF mapper THEN <<"cleanup_luks_close">> ELSE <<>>)
    \o (IF UnmountLvmTargets # {} THEN <<"cleanup_lvchange_an", "cleanup_vgchange_an">> ELSE <<>>)
    \o (IF nbd_loaded
        THEN <<"cleanup_disconnect_nbd0", "cleanup_disconnect_nbd1", "cleanup_sleep">>
        ELSE <<>>)
    \o <<"cleanup_modprobe_r_nbd">>

\* the nbd module cannot be removed while a device-mapper volume of the image
\* still holds its device open
Cleanup ==
    IF ~resources_initialized
    THEN UNCHANGED <<folders, hostVars, log>>
    ELSE /\ mounts' = mounts \ folders
         /\ folders' = {}
         /\ mapper' = FALSE
         /\ lv_deactivated' = lv_deactivated \cup UnmountLvmTargets
         /\ lv_active' = lv_active \ { p \in UnmountLvmTargets : ~Busy(p) }
         /\ nbd_attached' = IF nbd_loaded THEN {} ELSE nbd_attached
         /\ nbd_loaded' = (nbd_loaded /\ (lv_active' \cap Paths(env.image_lvs)) # {})
         /\ log' = log \o CleanupLog

\* GuestSetup.__exit__
Exit ==
    /\ pc = "exit"
    /\ Cleanup
    /\ pc' = "terminal"
    /\ UNCHANGED <<nonGuestVars, env, exc, resources_initialized, initial_lvm_devices,
                   src_root_fs_device, outVars>>

(***************************************************************************)
(* build_guest_image after setup_verity has returned                       *)
(***************************************************************************)
\* setup_vm_config
SetupVmConfig ==
    /\ pc = "terminal"
    /\ exc = "none"
    /\ \/ \E matches \in GlobResults :
             /\ vm_config_file' =
                    create_vm_config_file(ovmf, kernel_vmlinuz, initrd,
                                          cmdline \o verity_params(root_hash_file),
                                          matches)
             /\ log' = Append(log, "setup_vm_config")
             /\ pc' = "get_hashes"
             /\ exc' = exc
       \/ \* the descriptor cannot be opened for writing
          /\ pc' = "failed"
          /\ exc' = "OSError"
          /\ UNCHANGED <<vm_config_file, log>>
    /\ UNCHANGED <<nonGuestVars, env, selfVars, hostVars, root_hash_file, ret>>

\* get_hashes: digest_calc --vm-definition vm_config_file > inputs.json
GetHashes ==
    /\ pc = "get_hashes"
    /\ \/ /\ log' = Append(log, "get_hashes")
          /\ pc' = "built"
          /\ exc' = exc
       \/ /\ pc' = "failed"
          /\ exc' = "CommandExecutionError"
          /\ log' = log
    /\ UNCHANGED <<nonGuestVars, env, selfVars, hostVars, outVars>>

\* main: build_guest_image has returned or an exception has left it; the
\* status of a failed digest command is the command's
MainExit ==
    /\ pc \in {"terminal", "failed", "built"}
    /\ pc = "terminal" => exc # "none"
    /\ \E status \in CommandStatuses :
          /\ exc # "CommandExecutionError" => status = 1
          /\ exit_code' = IF exc = "none" THEN Exited(0) ELSE main_except(exc, status)
    /\ pc' = "exited"
    /\ UNCHANGED <<guestOnlyVars, exc, templateVars, releaseVars, launchVars, passwdVars,
                   cli_in, toolVars>>

NextGuest ==
    \/ Enter
    \/ CreateOutputImage
    \/ CheckLvm
    \/ ModprobeNbd
    \/ ConnectSrc
    \/ ConnectDst
    \/ FindRootFsDevice
    \/ Prompt
    \/ MkfsDst
    \/ MountSrc
    \/ MountDst
    \/ CopyFilesystem
    \/ CopyHyperbeamComponents
    \/ PrepareVerityFs
    \/ UnmountImages
    \/ ComputeHashTree
    \/ Exit
    \/ SetupVmConfig
    \/ GetHashes
    \/ MainExit

SpecGuest == InitGuest /\ [][NextGuest]_vars

(***************************************************************************)
(* DockerfileTemplateProcessor.  The recipe on disk is a sequence of bytes; *)
(* the two placeholders <HB_BRANCH> and <AO_BRANCH> and the branch names    *)
(* that replace them are each one element of the sequence.                  *)
(***************************************************************************)
MaxRecipeLen == 3

RecipeBytes == { "F", "\r", "\n", "<HB_BRANCH>", "<AO_BRANCH>" }

Recipes == UNION { [1..n -> RecipeBytes] : n \in 0..MaxRecipeLen }

\* template_vars of build_guest_content, with the default branches
template_vars == << [var |-> "<HB_BRANCH>", value |-> "edge"],
                    [var |-> "<AO_BRANCH>", value |-> "tillathehun0/cu-experimental"] >>

\* open(path, 'r').read(): text mode translates \r\n and a lone \r to \n
RECURSIVE ReadText(_)
ReadText(bytes) ==
    IF bytes = <<>> THEN <<>>
    ELSE IF Head(bytes) = "\r"
         THEN IF Len(bytes) > 1 /\ bytes[2] = "\n"
              THEN <<"\n">> \o ReadText(Tail(Tail(bytes)))
              ELSE <<"\n">> \o ReadText(Tail(bytes))
         ELSE <<Head(bytes)>> \o ReadText(Tail(bytes))

\* os.linesep of the Linux hosts the tool runs on
linesep == <<"\n">>

\* open(path, 'w').write(text): text mode writes os.linesep for every \n
RECURSIVE WriteText(_)
WriteText(text) ==
    IF text = <<>> THEN <<>>
    ELSE (IF Head(text) = "\n" THEN linesep ELSE <<Head(text)>>) \o WriteText(Tail(text))

\* str.replace(placeholder, value)
Replace(text, placeholder, value) ==
    [i \in 1..Len(text) |-> IF text[i] = placeholder THEN value ELSE text[i]]

\* the loop over template_vars.items()
RECURSIVE ReplaceAll(_, _)
ReplaceAll(text, tvars) ==
    IF tvars = <<>> THEN text
    ELSE ReplaceAll(Replace(text, Head(tvars).var, Head(tvars).value), Tail(tvars))

\* build_guest_content is about to enter managed_template
InitTemplate ==
    /\ pc = "process_template"
    /\ exc = "none"
    /\ dockerfile \in {Absent} \cup { File(b) : b \in Recipes }
    /\ dockerfile_before = dockerfile
    /\ original_content = NoValue
    /\ IdleGuest
    /\ IdleRelease
    /\ IdleLaunch
    /\ IdlePasswd
    /\ IdleCli
    /\ IdleTools

\* managed_template up to the yield: process_template
ProcessTemplate ==
    /\ pc = "process_template"
    /\ \/ \* the recipe does not exist: DockerError leaves through the finally
          \* clause with original_content still None
          /\ ~dockerfile.exists
          /\ exc' = "DockerError"
          /\ pc' = "template_done"
          /\ UNCHANGED <<dockerfile, original_content>>
       \/ /\ dockerfile.exists
          /\ LET original == ReadText(dockerfile.content)
                 modified == ReplaceAll(original, template_vars)
             IN /\ original_content' = Returned(original)
                /\ dockerfile' = File(WriteText(modified))
          /\ pc' = "build_image"
          /\ exc' = exc
    /\ UNCHANGED <<dockerfile_before, nonTemplateVars>>

BodyExceptions == {"DockerError", "KeyboardInterrupt"}

\* the body of the with-statement: docker_service.build_image
BuildImage ==
    /\ pc = "build_image"
    /\ \/ pc' = "managed_container" /\ exc' = exc
       \/ \E e \in BodyExceptions : exc' = e /\ pc' = "template_exit"
    /\ UNCHANGED <<templateVars, nonTemplateVars>>

\* the body of the with-statement: managed_container and copy_from_container
CopyFromContainer ==
    /\ pc = "managed_container"
    /\ \/ exc' = exc
       \/ \E e \in BodyExceptions : exc' = e
    /\ pc' = "template_exit"
    /\ UNCHANGED <<templateVars, nonTemplateVars>>

\* restore_template
restore_template(content) == File(WriteText(content))

\* the finally clause of managed_template: `if original_content:` restores
RestoreTemplate ==
    /\ pc = "template_exit"
    /\ dockerfile' = IF original_content.returned /\ original_content.value # <<>>
                     THEN restore_template(original_content.value)
                     ELSE dockerfile
    /\ pc' = "template_done"
    /\ UNCHANGED <<exc, dockerfile_before, original_content, nonTemplateVars>>

NextTemplate ==
    \/ ProcessTemplate
    \/ BuildImage
    \/ CopyFromContainer
    \/ RestoreTemplate

SpecTemplate == InitTemplate /\ [][NextTemplate]_vars

\* C2: when the managed_template scope has been entered and then exited,
\* after the body completed or raised, the bytes of the recipe file equal
\* the bytes it had immediately before the scope was entered.
C2_RecipeRestoredByteForByte ==
    (pc = "template_done" /\ original_content.returned) =>
        dockerfile = dockerfile_before

(***************************************************************************)
(* package_release                                                         *)
(***************************************************************************)
verity_image == Path("build/verity", "guest.qcow2")

verity_hash_tree == Path("build/verity", "hash_tree.bin")

\* os.path.basename
basename(path) == path.base

\* "./release/" + os.path.basename(filepath)
ReleasePath(path) == Path("./release", basename(path))

\* keys of package_release
keys == << "kernel_file", "ovmf_file", "initrd_file" >>

\* the descriptors an earlier build_guest can have left behind, or none
BuiltDescriptors ==
    { create_vm_config_file(ovmf, kernel_vmlinuz, initrd,
                            cmdline \o verity_params(File(<<"a", "7">>)), m) :
        m \in GlobResults }

\* the files a build leaves in the build tree; any of them can be gone
BuildTreeFiles ==
    {verity_image, verity_hash_tree, ovmf, initrd}
    \cup { d.kernel_file : d \in { b \in BuiltDescriptors : b.kernel_file # kernel_vmlinuz } }

nonReleaseVars == <<guestOnlyVars, templateVars, launchVars, passwdVars, cliVars, toolVars>>

InitRelease ==
    /\ pc = "prepare_release_dir"
    /\ exc = "none"
    /\ existing \in SUBSET BuildTreeFiles
    /\ release_dir \in { {}, {"stale.bin"} }
    /\ release_vm_config = NoDescriptor
    /\ archive = NoArchive
    /\ env = CHOOSE e \in Envs : ~e.debug /\ ~e.non_interactive /\ e.host_lvs = <<>>
                                  /\ e.image_lvs = <<>> /\ e.fdisk = "found"
    /\ resources_initialized = FALSE
    /\ folders = {}
    /\ initial_lvm_devices = 0
    /\ src_root_fs_device = ""
    /\ nbd_loaded = FALSE
    /\ nbd_attached = {}
    /\ mounts = {}
    /\ mapper = FALSE
    /\ lv_active = {}
    /\ lv_deactivated = {}
    /\ log = <<>>
    /\ root_hash_file = File(<<"a", "7">>)
    /\ ret = NoValue
    /\ vm_config_file \in {NoDescriptor} \cup BuiltDescriptors
    /\ IdleTemplate
    /\ IdleLaunch
    /\ IdlePasswd
    /\ IdleCli
    /\ IdleTools

\* shutil.rmtree(release_dir); os.makedirs(release_dir)
PrepareReleaseDir ==
    /\ pc = "prepare_release_dir"
    /\ release_dir' = {}
    /\ pc' = "copy_verity_files"
    /\ UNCHANGED <<exc, existing, release_vm_config, archive, nonReleaseVars>>

\* the loop over files_to_copy: a file that exists is copied, unless the
\* copy is denied and the sudo fallback fails too, which is only reported
CopyVerityFiles ==
    /\ pc = "copy_verity_files"
    /\ \E copied \in SUBSET ({verity_image, verity_hash_tree} \cap existing) :
          release_dir' = release_dir \cup { basename(f) : f \in copied }
    /\ pc' = "read_vm_config"
    /\ UNCHANGED <<exc, existing, release_vm_config, archive, nonReleaseVars>>

\* the fields of the descriptor matched by the regex of each key
extra_files(descriptor) == [i \in 1..Len(keys) |-> descriptor[keys[i]]]

\* the re.sub of each key: the value becomes ./release/<basename>
UpdatedConfig(descriptor) ==
    [descriptor EXCEPT !.kernel_file = ReleasePath(@),
                       !.ovmf_file = ReleasePath(@),
                       !.initrd_file = ReleasePath(@)]

\* from reading vm-config.toml to writing the updated copy into ./release
WriteReleaseConfig ==
    /\ pc = "read_vm_config"
    /\ \/ \* the descriptor does not exist: an error is printed, the function returns
          /\ ~vm_config_file.exists
          /\ pc' = "release_done"
          /\ UNCHANGED <<exc, release_dir, release_vm_config>>
       \/ /\ vm_config_file.exists
          /\ release_dir' = release_dir
                 \cup { basename(f) : f \in Range(extra_files(vm_config_file)) \cap existing }
                 \cup { "vm-config.toml" }
          /\ release_vm_config' = UpdatedConfig(vm_config_file)
          /\ pc' = "tar"
          /\ exc' = exc
       \/ \* shutil.copy of an extra file is denied
          /\ vm_config_file.exists
          /\ Range(extra_files(vm_config_file)) \cap existing # {}
          /\ pc' = "release_done"
          /\ exc' = "PermissionError"
          /\ UNCHANGED <<release_dir, release_vm_config>>
    /\ UNCHANGED <<existing, archive, nonReleaseVars>>

\* tar -cvzf release.tar.gz -C <cwd> release
Tar ==
    /\ pc = "tar"
    /\ \/ /\ archive' = [exists |-> TRUE, files |-> release_dir]
          /\ exc' = exc
       \/ /\ exc' = "CalledProcessError"
          /\ archive' = archive
    /\ pc' = "release_done"
    /\ UNCHANGED <<existing, release_dir, release_vm_config, nonReleaseVars>>

NextRelease ==
    \/ PrepareReleaseDir
    \/ CopyVerityFiles
    \/ WriteReleaseConfig
    \/ Tar

SpecRelease == InitRelease /\ [][NextRelease]_vars

\* C4: once package_release has written the descriptor into the release
\* directory, each of kernel_file, ovmf_file and initrd_file in it is
\* ./release/<basename of the original value> and a file of that base name
\* is in the release directory, and in the archive once it is made.
C4_ReleaseDescriptorResolves ==
    release_vm_config.exists =>
        \A i \in 1..Len(keys) :
            /\ release_vm_config[keys[i]] = Path("./release", vm_config_file[keys[i]].base)
            /\ release_vm_config[keys[i]].base \in release_dir
            /\ archive.exists => release_vm_config[keys[i]].base \in archive.files

\* the base names a complete release directory holds
RequiredArtifacts ==
    { basename(verity_image), basename(verity_hash_tree), "vm-config.toml" }
    \cup (IF vm_config_file.exists
          THEN { basename(f) : f \in Range(extra_files(vm_config_file)) }
          ELSE {})

\* C23: package_release reports a failure whenever a required artifact (the
\* verity image, the hash tree, the descriptor, a file the descriptor
\* references) cannot be put into the release directory: it never returns
\* normally, and never leaves an archive, for an incomplete artifact set.
C23_IncompleteReleaseFails ==
    /\ (pc = "release_done" /\ exc = "none") => RequiredArtifacts \subseteq release_dir
    /\ archive.exists => RequiredArtifacts \subseteq archive.files

(***************************************************************************)
(* The launch composer.  A command string is a sequence of pieces: a dash, *)
(* a key, a value or a blank; a token is a maximal run of pieces between   *)
(* blanks.                                                                 *)
(***************************************************************************)
\* str(path)
PathStr(path) == << path.dir, "/", path.base >>

\* config.vm_config_file
vm_config_path == Path("build/guest", "vm-config.toml")

\* os.path.join(os.getcwd(), "release")
release_path == Path(".", "release")

\* os.path.join(release_dir, os.path.basename(path))
InRelease(path) == Path("./release", basename(path))

\* str.split(): the tokens of a string, blanks dropped
split(str) ==
    LET n == Len(str)
        \* the positions where a token begins and where the token begun at i ends
        starts == { i \in 1..n : str[i] # " " /\ (i = 1 \/ str[i - 1] = " ") }
        EndOf(i) == CHOOSE j \in i..n :
                        /\ j = n \/ str[j + 1] = " "
                        /\ \A k \in i..j : str[k] # " "
        Start(k) == CHOOSE i \in starts : Cardinality({ b \in starts : b <= i }) = k
    IN [k \in 1..Cardinality(starts) |-> SubSeq(str, Start(k), EndOf(Start(k)))]

\* " ".join(parts)
RECURSIVE join(_)
join(parts) ==
    IF parts = <<>> THEN <<>>
    ELSE IF Len(parts) = 1 THEN parts[1]
         ELSE parts[1] \o <<" ">> \o join(Tail(parts))

\* config.qemu_default_params
qemu_default_params ==
    << "-", "default-network", " ", "-", "log", " ", "build", "/", "stdout.log", " ",
       "-", "mem", " ", "204800", " ", "-", "smp", " ", "42", " " >>

\* QEMUConfig.snp_params
qemu_snp_params == << "-", "sev-snp" >>

qemu_hb_port == "80"

qemu_port == "4444"

\* CommandBuilder.param: a key of more than one character gets two dashes
CommandBuilder_param(parts, key, value) ==
    parts \o << (IF Len(key) = 1 THEN <<"-", key>> ELSE <<"-", "-", key>>), value >>

\* QEMUCommandBuilder.param: f"-{key}", str(value)
param(parts, key, value) == parts \o << <<"-", key>>, value >>

\* "1" if flag else "0" of debug / enable_kvm / enable_tpm / enable_ssl
FlagVal(enable) == IF enable THEN "1" ELSE "0"

\* `if data_disk:` - None and the empty string are false
Truthy(data_disk) == data_disk.given /\ data_disk.path # ""

\* the mandatory part of the builder chain of _build_complete_command
BaseCommand(image, hash_tree, descriptor, cfg) ==
    LET b0 == << <<"sudo">>, <<"-", "E">>, <<"./launch.sh">> >>
        b1 == b0 \o split(qemu_default_params) \o split(qemu_snp_params)
        b2 == param(b1, "hda", PathStr(image))
        b3 == param(b2, "hdb", PathStr(hash_tree))
        b4 == param(b3, "load-config", PathStr(descriptor))
        b5 == param(b4, "hb-port", <<qemu_hb_port>>)
        b6 == param(b5, "qemu-port", <<qemu_port>>)
        b7 == param(b6, "debug", <<ConfigDebug(cfg.debug)>>)
        b8 == param(b7, "enable-kvm", <<FlagVal(cfg.enable_kvm)>>)
    IN param(b8, "enable-tpm", <<FlagVal(cfg.enable_tpm)>>)

\* the mutation that appends the optional parameters first
build_complete_command_optional_first(image, hash_tree, descriptor, data_disk, enable_ssl, cfg) ==
    LET b0 == << <<"sudo">>, <<"-", "E">>, <<"./launch.sh">> >>
        b1 == IF Truthy(data_disk) THEN param(b0, "data-disk", <<data_disk.path>>) ELSE b0
        b2 == IF enable_ssl THEN param(b1, "enableSSL", <<FlagVal(enable_ssl)>>) ELSE b1
    IN join(b2 \o SubSeq(BaseCommand(image, hash_tree, descriptor, cfg), 4,
                          Len(BaseCommand(image, hash_tree, descriptor, cfg))))

\* VMLauncher._build_complete_command
build_complete_command(image, hash_tree, descriptor, data_disk, enable_ssl, cfg) ==
    LET b0 == BaseCommand(image, hash_tree, descriptor, cfg)
        b1 == IF Truthy(data_disk) THEN param(b0, "data-disk", <<data_disk.path>>) ELSE b0
        b2 == IF enable_ssl THEN param(b1, "enableSSL", <<FlagVal(enable_ssl)>>) ELSE b1
    IN join(b2)

\* the three artifacts a launch of the given mode reads
LaunchFiles(mode) ==
    IF mode = "start"
    THEN << verity_image, verity_hash_tree, vm_config_path >>
    ELSE << InRelease(verity_image), InRelease(verity_hash_tree), InRelease(vm_config_path) >>

\* required_files of VMFacade._validate_vm_files / _validate_release_files
required_files(mode) ==
    IF mode = "start"
    THEN Range(LaunchFiles(mode)) \cup {kernel_vmlinuz, initrd}
    ELSE Range(LaunchFiles(mode))

NoDataDisk == [given |-> FALSE, path |-> ""]

DataDisks == { NoDataDisk, [given |-> TRUE, path |-> ""],
               [given |-> TRUE, path |-> "/data/disk.img"] }

Configs == [debug : BOOLEAN, enable_kvm : {TRUE}, enable_tpm : BOOLEAN]

\* what can be on disk when a launch of the given mode starts
PresentSets(mode) ==
    IF mode = "start"
    THEN SUBSET required_files(mode)
    ELSE { {} } \cup { {release_path} \cup f : f \in SUBSET required_files(mode) }

LaunchInputs ==
    { i \in [entry : {"cli", "facade"}, mode : {"start", "start_release"},
             present : SUBSET (required_files("start") \cup required_files("start_release")
                                \cup {release_path}),
             data_disk : DataDisks, enable_ssl : BOOLEAN, cfg : Configs] :
        /\ i.present \in PresentSets(i.mode)
        /\ i.entry = "facade" => ~i.enable_ssl }

nonLaunchVars == <<guestOnlyVars, templateVars, releaseVars, passwdVars, cliVars, toolVars>>

InitLaunch ==
    /\ pc = "launch_entry"
    /\ exc = "none"
    /\ launch_in \in LaunchInputs
    /\ command = <<>>
    /\ executed = FALSE
    /\ launch_error = NoError
    /\ IdleGuest
    /\ IdleTemplate
    /\ IdleRelease
    /\ IdlePasswd
    /\ IdleCli
    /\ IdleTools

\* dispatch_command: start / start_release call the legacy start_vm and
\* start_release_vm, which hand over to VMService without any validation
DispatchStart ==
    /\ pc = "launch_entry"
    /\ launch_in.entry = "cli"
    /\ pc' = "compose"
    /\ UNCHANGED <<exc, launchVars, nonLaunchVars>>

\* the paths VMFacade._validate_vm_files / _validate_release_files name in
\* the FileNotFoundError they raise; none when nothing is missing
MissingFiles(mode, present) ==
    IF mode = "start_release" /\ release_path \notin present
    THEN {release_path}
    ELSE required_files(mode) \ present

\* VMFacade.start_vm / start_release_vm up to the call of the VM service
FacadeValidate ==
    /\ pc = "launch_entry"
    /\ launch_in.entry = "facade"
    /\ LET missing == MissingFiles(launch_in.mode, launch_in.present)
       IN IF missing # {}
          THEN /\ launch_error' = [raised |-> TRUE, listed |-> missing]
               /\ exc' = "FileNotFoundError"
               /\ pc' = "launch_done"
          ELSE /\ pc' = "compose"
               /\ UNCHANGED <<exc, launch_error>>
    /\ UNCHANGED <<launch_in, command, executed, nonLaunchVars>>

\* VMService.start_vm / start_release_vm and VMLauncher.launch up to the
\* composed command; the facade passes no enable_ssl
ComposeCommand ==
    /\ pc = "compose"
    /\ LET files == LaunchFiles(launch_in.mode)
           ssl == launch_in.entry = "cli" /\ launch_in.enable_ssl
       IN command' = build_complete_command(files[1], files[2], files[3],
                                            launch_in.data_disk, ssl, launch_in.cfg)
    /\ pc' = "run_command"
    /\ UNCHANGED <<exc, launch_in, executed, launch_error, nonLaunchVars>>

\* VMLauncher.launch: self._command_service.run_command(cmd)
RunLaunchCommand ==
    /\ pc = "run_command"
    /\ executed' = TRUE
    /\ \/ exc' = exc
       \/ exc' = "CommandExecutionError"
    /\ pc' = "launch_done"
    /\ UNCHANGED <<launch_in, command, launch_error, nonLaunchVars>>

NextLaunch ==
    \/ DispatchStart
    \/ FacadeValidate
    \/ ComposeCommand
    \/ RunLaunchCommand

SpecLaunch == InitLaunch /\ [][NextLaunch]_vars

\* the artifacts of the launch's mode that are not on disk
MissingArtifacts == Range(LaunchFiles(launch_in.mode)) \ launch_in.present

\* C5: in both launch modes and through every entry point, while the verity
\* image, the hash tree or the descriptor is missing no launch command is
\* composed or executed, and when the launch has ended the caller has
\* received an error that names every missing path.
C5_NoLaunchWithMissingArtifact ==
    MissingArtifacts # {} =>
        /\ command = <<>>
        /\ ~executed
        /\ pc = "launch_done" =>
               (launch_error.raised /\ MissingArtifacts \subseteq launch_error.listed)

MandatoryFlags == << "log", "mem", "smp", "sev-snp", "hda", "hdb", "load-config",
                     "hb-port", "qemu-port", "debug", "enable-kvm", "enable-tpm" >>

OptionalFlags == { "data-disk", "enableSSL" }

\* the positions of the flag -key among the tokens
Positions(tokens, key) == { i \in 1..Len(tokens) : tokens[i] = <<"-", key>> }

\* the token that follows the only occurrence of -key
ValueOf(tokens, key) == tokens[(CHOOSE i \in Positions(tokens, key) : TRUE) + 1]

\* C6: the composed command is the function of the launch's arguments and
\* configuration; in it each of -log, -mem, -smp, -sev-snp, -hda, -hdb,
\* -load-config, -hb-port, -qemu-port, -debug, -enable-kvm, -enable-tpm
\* occurs exactly once, in this order, -hda is followed by the verity
\* image, -hdb by the hash tree, -load-config by the descriptor, and the
\* optional flags come only after -enable-tpm.
C6_FlagOrder ==
    command # <<>> =>
        LET t == split(command)
            files == LaunchFiles(launch_in.mode)
        IN /\ command = build_complete_command(
                            files[1], files[2], files[3], launch_in.data_disk,
                            launch_in.entry = "cli" /\ launch_in.enable_ssl, launch_in.cfg)
           /\ \A k \in 1..Len(MandatoryFlags) :
                  Cardinality(Positions(t, MandatoryFlags[k])) = 1
           /\ \A k \in 1..(Len(MandatoryFlags) - 1) :
                  \A i \in Positions(t, MandatoryFlags[k]),
                     j \in Positions(t, MandatoryFlags[k + 1]) : i < j
           /\ \A o \in OptionalFlags :
                  \A i \in Positions(t, o), j \in Positions(t, "enable-tpm") : j < i
           /\ ValueOf(t, "hda") = PathStr(files[1])
           /\ ValueOf(t, "hdb") = PathStr(files[2])
           /\ ValueOf(t, "load-config") = PathStr(files[3])

C6_Witness ==
    /\ command # <<>>
    /\ launch_in.mode = "start_release"
    /\ launch_in.data_disk.path = "/data/disk.img"
    /\ launch_in.enable_ssl

\* a data-disk path was given to the launch
DataDiskProvided == launch_in.data_disk.given /\ launch_in.data_disk.path # ""

\* the tokens key, value are adjacent in the token list
Adjacent(tokens, key, value) ==
    \E i \in 1..(Len(tokens) - 1) : tokens[i] = <<"-", key>> /\ tokens[i + 1] = <<value>>

\* C7: the composed command contains the adjacent tokens -data-disk <path>
\* exactly when a data-disk path was provided and -enableSSL 1 exactly when
\* SSL was requested; every token that starts with a dash starts with
\* exactly one, and no token has the key=value form.
C7_SingleDashOptionalFlags ==
    command # <<>> =>
        LET t == split(command)
        IN /\ Adjacent(t, "data-disk", launch_in.data_disk.path) <=> DataDiskProvided
           /\ Positions(t, "data-disk") # {} <=> DataDiskProvided
           /\ Adjacent(t, "enableSSL", "1") <=> launch_in.enable_ssl
           /\ Positions(t, "enableSSL") # {} <=> launch_in.enable_ssl
           /\ \A i \in 1..Len(t) :
                  /\ t[i][1] = "-" => (Len(t[i]) >= 2 /\ t[i][2] # "-")
                  /\ "=" \notin Range(t[i])

C7_Witness == executed /\ DataDiskProvided /\ launch_in.enable_ssl

(***************************************************************************)
(* The secure-mode rewrite of /etc/passwd.  An entry is the seven fields   *)
(* of a line; the sed script of _configure_secure_mode addresses the lines *)
(* whose seventh field is /bin/bash and substitutes the first /bin/bash of *)
(* such a line.                                                            *)
(***************************************************************************)
MaxUsers == 2

Shells == { "/bin/bash", "/bin/sh", "/usr/sbin/nologin" }

Homes == { "/var/lib/home", "/bin/bash" }

\* the login name and the fields of a line that can hold /bin/bash, in the
\* order of the line
Entries == [name : {"root", "ubuntu"}, home : Homes, shell : Shells]

PasswdFiles == UNION { [1..n -> Entries] : n \in 0..MaxUsers }

\* the address /^[^:]*:[^:]*:[^:]*:[^:]*:[^:]*:[^:]*:\/bin\/bash$/
SedAddress(entry) == entry.shell = "/bin/bash"

\* s/\/bin\/bash/\/usr\/sbin\/nologin/ : the first match of the line
SedSubstitute(entry) ==
    IF entry.home = "/bin/bash"
    THEN [entry EXCEPT !.home = "/usr/sbin/nologin"]
    ELSE IF entry.shell = "/bin/bash"
         THEN [entry EXCEPT !.shell = "/usr/sbin/nologin"]
         ELSE entry

\* sed -i on the whole file
Sed(file) == [i \in 1..Len(file) |-> IF SedAddress(file[i]) THEN SedSubstitute(file[i])
                                                             ELSE file[i]]

nonPasswdVars == <<guestOnlyVars, templateVars, releaseVars, launchVars, cliVars, toolVars>>

InitPasswd ==
    /\ pc = "passwd_nologin"
    /\ exc = "none"
    /\ passwd \in PasswdFiles
    /\ passwd_before = passwd
    /\ IdleGuest
    /\ IdleTemplate
    /\ IdleRelease
    /\ IdleLaunch
    /\ IdleCli
    /\ IdleTools

\* _configure_secure_mode: subprocess.run(sed_cmd, shell=True, check=True)
PasswdNologin ==
    /\ pc = "passwd_nologin"
    /\ \/ /\ passwd' = Sed(passwd)
          /\ pc' = "passwd_done"
          /\ exc' = exc
       \/ /\ exc' = "GuestSetupError"
          /\ pc' = "passwd_failed"
          /\ passwd' = passwd
    /\ UNCHANGED <<passwd_before, nonPasswdVars>>

NextPasswd == PasswdNologin

SpecPasswd == InitPasswd /\ [][NextPasswd]_vars

\* C8: after the secure-mode rewrite every entry of a non-root user whose
\* shell was /bin/bash has the shell /usr/sbin/nologin, and the entry of
\* root has the shell it had before.
C8_RootKeepsShell ==
    pc = "passwd_done" =>
        \A i \in 1..Len(passwd_before) :
            /\ (passwd_before[i].name # "root" /\ passwd_before[i].shell = "/bin/bash")
                   => passwd[i].shell = "/usr/sbin/nologin"
            /\ passwd_before[i].name = "root" => passwd[i].shell = passwd_before[i].shell

(***************************************************************************)
(* The CLI boundary: main() of cli_handler.py                              *)
(***************************************************************************)
Targets == { "none", "help", "init", "setup_host", "setup_gpu", "build_snp_release",
             "build_base", "build_guest", "start", "start_release", "package_release",
             "download_release", "ssh", "clean" }

\* how the subcommand's function ends
Outcomes == { "success", "KeyboardInterrupt", "Exception" } \cup HyperBeamErrors

\* a command line: whether argparse accepts it, whether the values of
\* --hb-branch / --ao-branch / --url pass process_arguments, and what the
\* subcommand's function does when it runs
CliInputs ==
    { i \in [target : Targets, usage_ok : BOOLEAN, args_valid : BOOLEAN,
             outcome : Outcomes, status : CommandStatuses] :
        /\ i.target \notin {"build_guest", "download_release"} => i.args_valid
        /\ i.outcome # "CommandExecutionError" => i.status = 1
        /\ i.target \in {"none", "help"} => i.outcome = "success" }

nonCliVars == <<guestOnlyVars, templateVars, releaseVars, launchVars, passwdVars, toolVars>>

InitCli ==
    /\ pc = "parse_args"
    /\ exc = "none"
    /\ cli_in \in CliInputs
    /\ exit_code = NoExit
    /\ IdleGuest
    /\ IdleTemplate
    /\ IdleRelease
    /\ IdleLaunch
    /\ IdlePasswd
    /\ IdleTools

\* parser.parse_args(): argparse ends the process with status 2 on a
\* command line it does not accept
ParseArgs ==
    /\ pc = "parse_args"
    /\ IF cli_in.usage_ok
       THEN pc' = "process_arguments" /\ exit_code' = exit_code
       ELSE pc' = "exited" /\ exit_code' = Exited(2)
    /\ UNCHANGED <<exc, cli_in, nonCliVars>>

\* the except clauses of main and of the download branch of
\* process_arguments: HyperBeamError, then Exception
Handled(outcome, status) ==
    IF outcome \in HyperBeamErrors THEN Exited(error_code(outcome, status))
    ELSE Exited(255)

\* an exception that no except clause catches ends the interpreter with
\* status 1; an uncaught KeyboardInterrupt ends it by SIGINT, status 130
Uncaught(exception) == IF exception = "KeyboardInterrupt" THEN Exited(130) ELSE Exited(1)

\* process_arguments(args), called by main outside its try statement
ProcessArguments ==
    /\ pc = "process_arguments"
    /\ \/ /\ cli_in.target \in {"none", "help"}
          /\ exit_code' = Exited(0)
          /\ pc' = "exited"
          /\ exc' = exc
       \/ \* a blank branch name or a URL that is not http(s): ValueError
          /\ cli_in.target \in {"build_guest", "download_release"}
          /\ ~cli_in.args_valid
          /\ exc' = "ValueError"
          /\ exit_code' = Uncaught("ValueError")
          /\ pc' = "exited"
       \/ \* download_release runs here, inside its own try statement
          /\ cli_in.target = "download_release"
          /\ cli_in.args_valid
          /\ exc' = IF cli_in.outcome = "success" THEN exc ELSE cli_in.outcome
          /\ exit_code' = CASE cli_in.outcome = "success" -> Exited(0)
                             [] cli_in.outcome = "KeyboardInterrupt" ->
                                    Uncaught("KeyboardInterrupt")
                             [] OTHER -> Handled(cli_in.outcome, cli_in.status)
          /\ pc' = "exited"
       \/ /\ cli_in.target \notin {"none", "help", "download_release"}
          /\ cli_in.args_valid
          /\ pc' = "dispatch_command"
          /\ UNCHANGED <<exc, exit_code>>
    /\ UNCHANGED <<cli_in, nonCliVars>>

\* the try statement of main around dispatch_command(args)
DispatchCommand ==
    /\ pc = "dispatch_command"
    /\ exc' = IF cli_in.outcome = "success" THEN exc ELSE cli_in.outcome
    /\ exit_code' = CASE cli_in.outcome = "success" -> Exited(0)
                       [] cli_in.outcome = "KeyboardInterrupt" -> Exited(130)
                       [] OTHER -> Handled(cli_in.outcome, cli_in.status)
    /\ pc' = "exited"
    /\ UNCHANGED <<cli_in, nonCliVars>>

NextCli ==
    \/ ParseArgs
    \/ ProcessArguments
    \/ DispatchCommand

SpecCli == InitCli /\ [][NextCli]_vars

\* the command ended by an error raised while its arguments were processed
\* or while it ran
Failure == exc # "none"

\* C10: the process exits with 0 when the subcommand succeeds, with 130 on
\* a keyboard interrupt, with 255 on any failure that is not a
\* HyperBeamError (a rejected argument value included), and with the
\* category code of the error, a code from 2 to 9, on a HyperBeamError.
C10_ExitCodes ==
    (exit_code.exited /\ cli_in.usage_ok) =>
        /\ ~Failure => exit_code.code = 0
        /\ exc = "KeyboardInterrupt" => exit_code.code = 130
        /\ (Failure /\ exc \notin HyperBeamErrors \cup {"KeyboardInterrupt"})
               => exit_code.code = 255
        /\ exc \in HyperBeamErrors => exit_code.code \in 2..9

(***************************************************************************)
(* The build entry points: build_base_image and build_guest_image of       *)
(* build_orchestrator.py (called by the CLI) and of BuildFacade.  A run is  *)
(* the sequence of its steps; the log holds the steps completed.            *)
(***************************************************************************)
\* build_orchestrator.build_base_image
build_base_image == << "unpack_kernel", "initramfs_build", "create_vm", "run_setup" >>

\* build_orchestrator.build_guest_image
build_guest_image == << "build_content", "setup_verity", "setup_vm_config", "get_hashes" >>

\* BuildFacade.build_base_image
BuildFacade_build_base_image ==
    << "unpack_kernel", "initramfs_build", "create_vm", "setup_vm_config", "get_hashes" >>

\* BuildFacade.build_guest_image
BuildFacade_build_guest_image ==
    << "build_content", "setup_verity", "setup_vm_config", "get_hashes" >>

BuildSteps(in) ==
    CASE in.entry = "cli" /\ in.stage = "build_base" -> build_base_image
      [] in.entry = "cli" /\ in.stage = "build_guest" -> build_guest_image
      [] in.entry = "facade" /\ in.stage = "build_base" -> BuildFacade_build_base_image
      [] in.entry = "facade" /\ in.stage = "build_guest" -> BuildFacade_build_guest_image

BuildInputs == [entry : {"cli", "facade"}, stage : {"build_base", "build_guest"}]

nonBuildVars == <<env, selfVars, hostVars, ret, templateVars, releaseVars, launchVars,
                  passwdVars, cliVars, cfg_in, cfg_out, rc_in, rc_out, moreVars>>

InitBuild ==
    /\ pc = "build_run"
    /\ exc = "none"
    /\ build_in \in BuildInputs
    /\ env = CHOOSE e \in Envs : ~e.debug /\ ~e.non_interactive /\ e.host_lvs = <<>>
                                  /\ e.image_lvs = <<>> /\ e.fdisk = "found"
    /\ resources_initialized = FALSE
    /\ folders = {}
    /\ initial_lvm_devices = 0
    /\ src_root_fs_device = ""
    /\ nbd_loaded = FALSE
    /\ nbd_attached = {}
    /\ mounts = {}
    /\ mapper = FALSE
    /\ lv_active = {}
    /\ lv_deactivated = {}
    /\ log = <<>>
    /\ root_hash_file \in {Absent, File(<<"7">>)}
    /\ ret = NoValue
    /\ vm_config_file \in {NoDescriptor, StaleDescriptor}
    /\ IdleTemplate
    /\ IdleRelease
    /\ IdleLaunch
    /\ IdlePasswd
    /\ IdleCli
    /\ IdleVmConfig
    /\ IdleRunCommand
    /\ IdleMore

\* the step the entry point runs next
NextBuildStep == BuildSteps(build_in)[Len(log) + 1]

\* a step that neither writes the descriptor nor runs the digest tool;
\* setup_verity leaves the root hash file of the image it built
BuildStep ==
    /\ pc = "build_run"
    /\ Len(log) < Len(BuildSteps(build_in))
    /\ NextBuildStep \notin {"setup_vm_config", "get_hashes"}
    /\ \/ /\ log' = Append(log, NextBuildStep)
          /\ IF NextBuildStep = "setup_verity"
             THEN \E h \in HexStrings : root_hash_file' = File(h)
             ELSE root_hash_file' = root_hash_file
          /\ UNCHANGED <<pc, exc>>
       \/ /\ pc' = "build_failed"
          /\ exc' \in {"CommandExecutionError", "DockerError", "GuestSetupError"}
          /\ UNCHANGED <<log, root_hash_file>>
    /\ UNCHANGED <<vm_config_file, build_in, nonBuildVars>>

\* setup_vm_config / BuildFacade._setup_vm_config
BuildSetupVmConfig ==
    /\ pc = "build_run"
    /\ Len(log) < Len(BuildSteps(build_in))
    /\ NextBuildStep = "setup_vm_config"
    /\ \/ \E matches \in GlobResults :
             /\ vm_config_file' =
                    create_vm_config_file(ovmf, kernel_vmlinuz, initrd,
                                          cmdline \o verity_params(root_hash_file),
                                          matches)
             /\ log' = Append(log, "setup_vm_config")
             /\ UNCHANGED <<pc, exc>>
       \/ /\ pc' = "build_failed"
          /\ exc' = "OSError"
          /\ UNCHANGED <<vm_config_file, log>>
    /\ UNCHANGED <<root_hash_file, build_in, nonBuildVars>>

\* get_hashes / BuildFacade._generate_hashes: digest_calc on the descriptor
BuildGetHashes ==
    /\ pc = "build_run"
    /\ Len(log) < Len(BuildSteps(build_in))
    /\ NextBuildStep = "get_hashes"
    /\ \/ /\ log' = Append(log, "get_hashes")
          /\ UNCHANGED <<pc, exc>>
       \/ /\ pc' = "build_failed"
          /\ exc' = "CommandExecutionError"
          /\ log' = log
    /\ UNCHANGED <<root_hash_file, vm_config_file, build_in, nonBuildVars>>

\* the entry point returns
BuildReturn ==
    /\ pc = "build_run"
    /\ Len(log) = Len(BuildSteps(build_in))
    /\ pc' = "build_returned"
    /\ UNCHANGED <<exc, log, root_hash_file, vm_config_file, build_in, nonBuildVars>>

NextBuild ==
    \/ BuildStep
    \/ BuildSetupVmConfig
    \/ BuildGetHashes
    \/ BuildReturn

SpecBuild == InitBuild /\ [][NextBuild]_vars

\* C16: when a build_base or build_guest entry point, of the CLI or of the
\* facade, has returned, the run has invoked the digest tool and has not
\* written the descriptor after the last invocation, so inputs.json was
\* produced from the descriptor as last written.
C16_DigestAfterLastDescriptorWrite ==
    pc = "build_returned" =>
        /\ \E i \in 1..Len(log) : log[i] = "get_hashes"
        /\ \A i \in 1..Len(log) :
               log[i] = "setup_vm_config" =>
                   \E j \in (i + 1)..Len(log) : log[j] = "get_hashes"

(***************************************************************************)
(* create_vm_config_file in detail.  A kernel command line is a sequence   *)
(* of pieces (a word, a blank, a quote, the characters of an output); the   *)
(* file written is a sequence of lines.                                     *)
(***************************************************************************)
\* the pieces of text that contain the letters c-a-t
CatPieces == { "cat", "console=ttyS0,catch" }

\* `"cat" in kernel_cmdline`
ContainsCat(text) == \E i \in 1..Len(text) : text[i] \in CatPieces

Quote == "'"

\* the end of the match of verity_roothash='([^']+)' that starts at i: the
\* first quote after at least one piece that is not a quote; 0 when the
\* pattern does not match at i
MatchEnd(text, i) ==
    IF /\ i + 3 <= Len(text)
       /\ text[i] = RoothashKey
       /\ text[i + 1] = Quote
       /\ text[i + 2] # Quote
       /\ \E j \in (i + 3)..Len(text) : text[j] = Quote
    THEN CHOOSE j \in (i + 3)..Len(text) :
             text[j] = Quote /\ \A k \in (i + 2)..(j - 1) : text[k] # Quote
    ELSE 0

\* the positions where the pattern matches
MatchStarts(text) == { i \in 1..Len(text) : MatchEnd(text, i) # 0 }

\* re.search(...).group(1): the command of the first match
FirstCommand(text) ==
    LET i == CHOOSE m \in MatchStarts(text) : \A n \in MatchStarts(text) : m <= n
    IN SubSeq(text, i + 2, MatchEnd(text, i) - 1)

\* re.sub(pattern, "verity_roothash=" + output, text): every match is replaced
RECURSIVE SubFrom(_, _, _)
SubFrom(text, i, output) ==
    IF i > Len(text) THEN <<>>
    ELSE IF MatchEnd(text, i) # 0
         THEN <<RoothashKey>> \o output \o SubFrom(text, MatchEnd(text, i) + 1, output)
         ELSE <<text[i]>> \o SubFrom(text, i + 1, output)

\* what run_command(cmd_str, capture_output=True) gives: the exit status of
\* the command and its standard output
CommandResults ==
    { [status |-> 0, stdout |-> <<>>],
      [status |-> 0, stdout |-> <<"a", "7", "\n">>],
      [status |-> 0, stdout |-> <<" ", "7", "a", "\n">>],
      [status |-> 1, stdout |-> <<>>],
      [status |-> 1, stdout |-> <<"7">>] }

\* the mutation that keeps the line break of the output
command_output_untrimmed(result) ==
    IF result.status = 0 THEN result.stdout ELSE <<>>

\* result.stdout.strip() if result.stdout else "", and "" when run_command
\* raised
command_output(result) ==
    IF result.status = 0 THEN Strip(result.stdout) ELSE <<>>

\* the token verity_roothash='<cmd>'
RoothashToken(cmd) == <<RoothashKey, Quote>> \o cmd \o <<Quote>>

LateCommands == { <<"cat", " ", "build/verity/root_hash">>,
                  <<"head", " ", "-c64", " ", "build/verity/root_hash">> }

\* the kernel command lines handed to create_vm_config_file
Cmdlines ==
    LET words == { <<"console=ttyS0">>, <<"console=ttyS0,catch">> }
        tokens == { RoothashToken(c) : c \in LateCommands }
                  \cup { <<RoothashKey, "a", "7">>, <<RoothashKey, Quote, Quote>> }
    IN words
       \cup { w \o <<" ">> \o t : w \in words, t \in tokens }
       \cup { t \o <<" ">> \o w \o <<" ">> \o t : w \in words, t \in tokens }

\* the late binding of the root hash: the command line to write, the
\* commands run and the warnings printed
late_binding(kernel_cmdline, result) ==
    IF ContainsCat(kernel_cmdline) /\ MatchStarts(kernel_cmdline) # {}
    THEN [kernel_cmdline |-> SubFrom(kernel_cmdline, 1, command_output(result)),
          ran |-> << FirstCommand(kernel_cmdline) >>,
          warnings |-> IF result.status = 0 THEN <<>> ELSE << "command failed" >>]
    ELSE [kernel_cmdline |-> kernel_cmdline, ran |-> <<>>, warnings |-> <<>>]

\* the paths that contain `*`
Patterns == { kernel_vmlinuz }

\* a kernel path without `*`
kernel_literal == Path(kernel_vmlinuz.dir, "vmlinuz-6.9.0-snp")

\* the resolution of the kernel path: matches[0], or the pattern and a warning
resolve_kernel(kernel_path, matches) ==
    [kernel_path |-> IF kernel_path \in Patterns /\ matches # <<>>
                     THEN matches[1] ELSE kernel_path,
     warnings |-> IF kernel_path \in Patterns /\ matches = <<>>
                  THEN << "no files found" >> ELSE <<>>]

\* dict.get(key, default)
Get(dict, key, default) == IF key \in DOMAIN dict THEN dict[key] ELSE default

EmptyDict == <<>>

Zeros32 == "00000000000000000000000000000000"

\* a policy as setup_vm_config passes it, with values that are not the
\* defaults of the writer
SuppliedPolicy ==
    [host_cpu_family |-> "Genoa", vcpu_count |-> 42, guest_features |-> "0x1",
     platform_info |-> "0x1", guest_policy |-> "0xb0000",
     family_id |-> "000000000000000000000000000000aa",
     image_id |-> "000000000000000000000000000000bb"]

\* TCB floors: complete, and with one field only
TcbFloors ==
    { [bootloader |-> 5, tee |-> 1, snp |-> 23, microcode |-> 214,
       _reserved |-> <<0, 0, 0, 1>>],
      [snp |-> 23] }

\* the key of the TCB floor that create_vm_config_file reads, and the key its
\* docstring tells the caller to use
TcbKeyRead == "min_committed_tcb"

TcbKeyDocumented == "min_commited_tcb"

\* the vm_config dictionaries handed to create_vm_config_file
VmConfigs ==
    LET policies == { EmptyDict, SuppliedPolicy }
    IN policies
       \cup { p @@ (k :> t) : p \in policies, k \in {TcbKeyRead, TcbKeyDocumented},
                               t \in TcbFloors }

\* one line of the descriptor: key = "value", key = value, or [section]
Line(k, f, v) == [key |-> k, form |-> f, value |-> v]

\* the lines create_vm_config_file writes
descriptor_lines(ovmf_path, kernel_path, initrd_path, kernel_cmdline, vm_config) ==
    LET tcb == Get(vm_config, TcbKeyRead, EmptyDict)
    IN << Line("host_cpu_family", "string", Get(vm_config, "host_cpu_family", "Milan")),
          Line("vcpu_count", "bare", Get(vm_config, "vcpu_count", 1)),
          Line("ovmf_file", "string", ovmf_path),
          Line("guest_features", "bare", Get(vm_config, "guest_features", "0x1")),
          Line("kernel_file", "string", kernel_path),
          Line("initrd_file", "string", initrd_path),
          Line("kernel_cmdline", "string", kernel_cmdline),
          Line("platform_info", "bare", Get(vm_config, "platform_info", "0x3")),
          Line("guest_policy", "bare", Get(vm_config, "guest_policy", "0x30000")),
          Line("family_id", "string", Get(vm_config, "family_id", Zeros32)),
          Line("image_id", "string", Get(vm_config, "image_id", Zeros32)),
          Line("min_commited_tcb", "section", <<>>),
          Line("bootloader", "bare", Get(tcb, "bootloader", 4)),
          Line("tee", "bare", Get(tcb, "tee", 0)),
          Line("snp", "bare", Get(tcb, "snp", 22)),
          Line("microcode", "bare", Get(tcb, "microcode", 213)),
          Line("_reserved", "bare", Get(tcb, "_reserved", <<0, 0, 0, 0>>)) >>

CfgInputs ==
    { [entry |-> "create_vm_config_file", ovmf_path |-> ovmf, kernel_path |-> k,
       initrd_path |-> initrd, kernel_cmdline |-> c, vm_config |-> v,
       matches |-> m, result |-> r] :
         k \in Patterns \cup {kernel_literal}, c \in Cmdlines, v \in VmConfigs,
         m \in GlobResults, r \in CommandResults }

NoOutput == [kernel_path |-> NoPath, kernel_cmdline |-> <<>>, ran |-> <<>>,
             warnings |-> <<>>, written |-> FALSE, file |-> <<>>]

nonVmConfigVars == <<env, selfVars, hostVars, log, outVars, templateVars, releaseVars,
                     launchVars, passwdVars, cliVars, build_in, rc_in, rc_out, moreVars>>

InitVmConfig ==
    /\ pc = "cfg_glob"
    /\ exc = "none"
    /\ cfg_in \in CfgInputs
    /\ cfg_in.kernel_path \notin Patterns => cfg_in.matches = <<>>
    /\ cfg_out = NoOutput
    /\ IdleGuest
    /\ IdleTemplate
    /\ IdleRelease
    /\ IdleLaunch
    /\ IdlePasswd
    /\ IdleCli
    /\ IdleBuild
    /\ IdleRunCommand
    /\ IdleMore

\* lines 54-59: the glob
CfgResolveKernel ==
    /\ pc = "cfg_glob"
    /\ LET r == resolve_kernel(cfg_in.kernel_path, cfg_in.matches)
       IN cfg_out' = [cfg_out EXCEPT !.kernel_path = r.kernel_path,
                                     !.warnings = @ \o r.warnings]
    /\ pc' = "cfg_late"
    /\ UNCHANGED <<exc, cfg_in, nonVmConfigVars>>

\* lines 61-74: the late binding
CfgLateBinding ==
    /\ pc = "cfg_late"
    /\ LET r == late_binding(cfg_in.kernel_cmdline, cfg_in.result)
       IN cfg_out' = [cfg_out EXCEPT !.kernel_cmdline = r.kernel_cmdline,
                                     !.ran = r.ran,
                                     !.warnings = @ \o r.warnings]
    /\ pc' = "cfg_write"
    /\ UNCHANGED <<exc, cfg_in, nonVmConfigVars>>

\* lines 77-99: the file is written
CfgWrite ==
    /\ pc = "cfg_write"
    /\ cfg_out' = [cfg_out EXCEPT
                     !.written = TRUE,
                     !.file = descriptor_lines(cfg_in.ovmf_path, cfg_out.kernel_path,
                                               cfg_in.initrd_path, cfg_out.kernel_cmdline,
                                               cfg_in.vm_config)]
    /\ pc' = "cfg_done"
    /\ UNCHANGED <<exc, cfg_in, nonVmConfigVars>>

NextVmConfig ==
    \/ CfgResolveKernel
    \/ CfgLateBinding
    \/ CfgWrite

SpecVmConfig == InitVmConfig /\ [][NextVmConfig]_vars

(***************************************************************************)
(* Claims about create_vm_config_file                                      *)
(***************************************************************************)
\* the section 6.1 schema: the keys in order and the form of each value
Schema ==
    << Line("host_cpu_family", "string", <<>>), Line("vcpu_count", "bare", <<>>),
       Line("ovmf_file", "string", <<>>), Line("guest_features", "bare", <<>>),
       Line("kernel_file", "string", <<>>), Line("initrd_file", "string", <<>>),
       Line("kernel_cmdline", "string", <<>>), Line("platform_info", "bare", <<>>),
       Line("guest_policy", "bare", <<>>), Line("family_id", "string", <<>>),
       Line("image_id", "string", <<>>), Line("min_commited_tcb", "section", <<>>),
       Line("bootloader", "bare", <<>>), Line("tee", "bare", <<>>),
       Line("snp", "bare", <<>>), Line("microcode", "bare", <<>>),
       Line("_reserved", "bare", <<>>) >>

\* the file has the keys of the schema, in its order, each in its form
FollowsSchema(file) ==
    /\ Len(file) = Len(Schema)
    /\ \A i \in 1..Len(Schema) :
           file[i].key = Schema[i].key /\ file[i].form = Schema[i].form

\* the value read back for a key
ReadBack(file, key) == file[CHOOSE i \in 1..Len(file) : file[i].key = key].value

\* the trimmed standard output of the command, empty when the command failed
TrimmedOutput == IF cfg_in.result.status = 0 THEN Strip(cfg_in.result.stdout) ELSE <<>>

HasToken == MatchStarts(cfg_in.kernel_cmdline) # {}

\* the token is late bound: its command has run, the command line written
\* carries the trimmed output in its place, a failure is warned about, and
\* the descriptor is written without an error
LateBound ==
    /\ cfg_out.ran = << FirstCommand(cfg_in.kernel_cmdline) >>
    /\ cfg_out.written
    /\ exc = "none"
    /\ ReadBack(cfg_out.file, "kernel_cmdline")
           = SubFrom(cfg_in.kernel_cmdline, 1, TrimmedOutput)
    /\ cfg_in.result.status # 0 => \E i \in 1..Len(cfg_out.warnings) :
                                       cfg_out.warnings[i] = "command failed"

CodePoints(base) ==
    CASE base = "vmlinuz-6.9.0-snp" ->
             <<118, 109, 108, 105, 110, 117, 122, 45, 54, 46, 57, 46, 48, 45, 115, 110, 112>>
      [] base = "vmlinuz-6.11.0-snp" ->
             <<118, 109, 108, 105, 110, 117, 122, 45, 54, 46, 49, 49, 46, 48, 45, 115, 110, 112>>

\* lexicographic order of two sequences of code points
RECURSIVE LexLeq(_, _)
LexLeq(a, b) ==
    IF a = <<>> THEN TRUE
    ELSE IF b = <<>> THEN FALSE
    ELSE IF Head(a) # Head(b) THEN Head(a) < Head(b)
    ELSE LexLeq(Tail(a), Tail(b))

\* the lexicographically first of the paths (all in one directory)
LexFirst(paths) ==
    CHOOSE p \in { paths[i] : i \in 1..Len(paths) } :
        \A i \in 1..Len(paths) : LexLeq(CodePoints(p.base), CodePoints(paths[i].base))

Warned(text) == \E i \in 1..Len(cfg_out.warnings) : cfg_out.warnings[i] = text

\* C18: when kernel_path contains `*` and matches several files, the
\* kernel_file written is the lexicographically first match; when it matches
\* no file, kernel_file is the literal pattern and a warning is printed.
C18_LexicographicallyFirstMatch ==
    (pc = "cfg_done" /\ cfg_in.kernel_path \in Patterns) =>
        /\ Len(cfg_in.matches) >= 2 =>
               ReadBack(cfg_out.file, "kernel_file") = LexFirst(cfg_in.matches)
        /\ cfg_in.matches = <<>> =>
               /\ ReadBack(cfg_out.file, "kernel_file") = cfg_in.kernel_path
               /\ Warned("no files found")

PolicyKeys == { "host_cpu_family", "vcpu_count", "guest_features", "platform_info",
                "guest_policy", "family_id", "image_id" }

TcbFields == { "bootloader", "tee", "snp", "microcode", "_reserved" }

\* the defaults of the docstring
PolicyDefaults ==
    [host_cpu_family |-> "Milan", vcpu_count |-> 1, guest_features |-> "0x1",
     platform_info |-> "0x3", guest_policy |-> "0x30000",
     family_id |-> Zeros32, image_id |-> Zeros32]

TcbDefaults ==
    [bootloader |-> 4, tee |-> 0, snp |-> 22, microcode |-> 213,
     _reserved |-> <<0, 0, 0, 0>>]

\* the TCB floor supplied in vm_config, under the key the docstring names or
\* the key the callers of the repository use
SuppliedTcb(vm_config) ==
    IF TcbKeyDocumented \in DOMAIN vm_config THEN vm_config[TcbKeyDocumented]
    ELSE IF TcbKeyRead \in DOMAIN vm_config THEN vm_config[TcbKeyRead]
    ELSE EmptyDict

\* C19: reading back the file written according to the section 6.1 schema
\* yields the supplied values: the eleven top-level keys in schema order,
\* then the section min_commited_tcb whose fields equal the TCB floor
\* supplied in vm_config; defaults appear only for values not supplied.
C19_DescriptorRoundTrip ==
    (pc = "cfg_done" /\ ~HasToken) =>
        /\ FollowsSchema(cfg_out.file)
        /\ ReadBack(cfg_out.file, "ovmf_file") = cfg_in.ovmf_path
        /\ ReadBack(cfg_out.file, "initrd_file") = cfg_in.initrd_path
        /\ ReadBack(cfg_out.file, "kernel_cmdline") = cfg_in.kernel_cmdline
        /\ cfg_in.kernel_path \notin Patterns =>
               ReadBack(cfg_out.file, "kernel_file") = cfg_in.kernel_path
        /\ \A k \in PolicyKeys :
               ReadBack(cfg_out.file, k)
                   = (IF k \in DOMAIN cfg_in.vm_config THEN cfg_in.vm_config[k]
                      ELSE PolicyDefaults[k])
        /\ \A f \in TcbFields :
               ReadBack(cfg_out.file, f)
                   = (IF f \in DOMAIN SuppliedTcb(cfg_in.vm_config)
                      THEN SuppliedTcb(cfg_in.vm_config)[f]
                      ELSE TcbDefaults[f])

(***************************************************************************)
(* run_command.  A string is a sequence of pieces; a list command is the   *)
(* sequence of its arguments.                                               *)
(***************************************************************************)
\* ' '.join(words)
RECURSIVE Join(_)
Join(words) ==
    IF Len(words) <= 1 THEN words
    ELSE << Head(words), " " >> \o Join(Tail(words))

\* the items of str(list): each argument between quotes, separated by ", "
RECURSIVE ReprItems(_)
ReprItems(words) ==
    IF words = <<>> THEN <<>>
    ELSE << Quote, Head(words), Quote >>
         \o (IF Len(words) > 1 THEN << ", " >> ELSE <<>>)
         \o ReprItems(Tail(words))

\* str(cmd): the string itself, or the printed form of the list
Str(cmd) == IF cmd.is_list THEN << "[" >> \o ReprItems(cmd.words) \o << "]" >>
            ELSE Join(cmd.words)

\* cmd if isinstance(cmd, str) else ' '.join(cmd)
command_str(cmd) == Join(cmd.words)

Commands == [is_list : BOOLEAN,
             words : { << "sudo", "modprobe", "nbd" >>, << "true" >> }]

\* the statuses a command ends with
ExitStatuses == {0, 1, 127}

RcInputs ==
    [entry : {"run_command"}, cmd : Commands, check : BOOLEAN, shell : BOOLEAN,
     ignore_errors : BOOLEAN, capture_output : BOOLEAN,
     started : BOOLEAN, status : ExitStatuses,
     stdout : { << "out" >> }, stderr : { << "err" >> }]

\* the stream subprocess.run hands over: the text when captured, None otherwise
Captured(in, text) == IF in.capture_output THEN Returned(text) ELSE NoValue

\* subprocess.CompletedProcess
CompletedProcess(in) ==
    [kind |-> "CompletedProcess", returncode |-> in.status,
     stdout |-> Captured(in, in.stdout), stderr |-> Captured(in, in.stderr)]

\* subprocess.CalledProcessError
CalledProcessError(in) ==
    [kind |-> "CalledProcessError", cmd |-> in.cmd, returncode |-> in.status,
     stdout |-> Captured(in, in.stdout), stderr |-> Captured(in, in.stderr)]

\* the mutation that leaves the exit code at its default
handle_subprocess_error_default_code(e, command_description) ==
    [kind |-> "CommandExecutionError",
     message |-> << "Command execution failed: " >> \o command_description,
     command |-> Str(e.cmd),
     error_code |-> 1,
     stdout |-> e.stdout,
     stderr |-> e.stderr]

\* handle_subprocess_error and the constructor of CommandExecutionError
handle_subprocess_error(e, command_description) ==
    [kind |-> "CommandExecutionError",
     message |-> << "Command execution failed: " >> \o command_description,
     command |-> Str(e.cmd),
     error_code |-> e.returncode,
     stdout |-> e.stdout,
     stderr |-> e.stderr]

nonRunCommandVars == <<env, selfVars, hostVars, log, outVars, templateVars, releaseVars,
                       launchVars, passwdVars, cliVars, build_in, cfg_in, cfg_out, moreVars>>

InitRunCommand ==
    /\ pc = "rc_run"
    /\ exc = "none"
    /\ rc_in \in RcInputs
    \* with a shell the command always starts (a missing program is status 127)
    /\ rc_in.shell => rc_in.started
    /\ ~rc_in.started => rc_in.status = 127
    /\ rc_out = NoCall
    /\ IdleGuest
    /\ IdleTemplate
    /\ IdleRelease
    /\ IdleLaunch
    /\ IdlePasswd
    /\ IdleCli
    /\ IdleBuild
    /\ IdleVmConfig
    /\ IdleMore

\* subprocess.run(cmd, shell=shell, check=check, ...)
RcSubprocessRun ==
    /\ pc = "rc_run"
    /\ IF ~rc_in.started
       THEN /\ exc' = "FileNotFoundError"
            /\ rc_out' = [kind |-> "FileNotFoundError"]
            /\ pc' = "rc_done"
       ELSE IF rc_in.check /\ rc_in.status # 0
       THEN /\ exc' = "CalledProcessError"
            /\ rc_out' = CalledProcessError(rc_in)
            /\ pc' = "rc_except"
       ELSE /\ exc' = "none"
            /\ rc_out' = CompletedProcess(rc_in)
            /\ pc' = "rc_return"
    /\ UNCHANGED <<rc_in, nonRunCommandVars>>

\* return result
RcReturn ==
    /\ pc = "rc_return"
    /\ pc' = "rc_done"
    /\ UNCHANGED <<exc, rc_in, rc_out, nonRunCommandVars>>

\* except subprocess.CalledProcessError as e
RcExcept ==
    /\ pc = "rc_except"
    /\ IF ~rc_in.ignore_errors
       THEN /\ exc' = "CommandExecutionError"
            /\ rc_out' = handle_subprocess_error(
                             rc_out, << "Failed to execute command: " >>
                                     \o command_str(rc_in.cmd))
       ELSE /\ exc' = "none"
            /\ rc_out' = rc_out
    /\ pc' = "rc_done"
    /\ UNCHANGED <<rc_in, nonRunCommandVars>>

NextRunCommand ==
    \/ RcSubprocessRun
    \/ RcReturn
    \/ RcExcept

SpecRunCommand == InitRunCommand /\ [][NextRunCommand]_vars

\* text occurs in the message
Contains(message, text) ==
    \E i \in 0..(Len(message) - Len(text)) :
        SubSeq(message, i + 1, i + Len(text)) = text

\* the command has run and ended with a status that is not zero
ExitedNonZero == pc = "rc_done" /\ rc_in.started /\ rc_in.status # 0

\* a CommandExecutionError is propagating that carries the command, the exit
\* code and the streams captured
RaisedCommandExecutionError ==
    /\ exc = "CommandExecutionError"
    /\ rc_out.kind = "CommandExecutionError"
    /\ (rc_out.command = command_str(rc_in.cmd)
        \/ Contains(rc_out.message, command_str(rc_in.cmd)))
    /\ rc_out.error_code = rc_in.status
    /\ rc_out.stdout = Captured(rc_in, rc_in.stdout)
    /\ rc_out.stderr = Captured(rc_in, rc_in.stderr)

\* C20: with ignore_errors false, whenever the command exits with a non-zero
\* code a CommandExecutionError is raised that carries the full command
\* string, the exit code and the captured stdout and stderr; with
\* ignore_errors true, run_command never raises for a non-zero exit.
C20_RaisesOnNonZeroExit ==
    ExitedNonZero =>
        /\ ~rc_in.ignore_errors => RaisedCommandExecutionError
        /\ rc_in.ignore_errors => exc = "none"

\* C20, amended: the same when check is true as well (the default); with
\* check false, or ignore_errors true, run_command never raises for a
\* non-zero exit.
C20_RaisesOnNonZeroExitWhenChecked ==
    ExitedNonZero =>
        /\ (rc_in.check /\ ~rc_in.ignore_errors) => RaisedCommandExecutionError
        /\ (~rc_in.check \/ rc_in.ignore_errors) => exc = "none"

\* a checked list command that ended with status 127, its streams captured,
\* has raised
C20_Witness ==
    /\ ExitedNonZero
    /\ rc_in.check
    /\ ~rc_in.ignore_errors
    /\ rc_in.capture_output
    /\ rc_in.cmd.is_list
    /\ rc_in.status = 127
    /\ exc = "CommandExecutionError"

(***************************************************************************)
(* Container scopes: DockerService.managed_container, build_initramfs and  *)
(* DockerService.stop_container.                                            *)
(***************************************************************************)
\* how `docker stop` ends: status 0, a status that is not 0 (no container of
\* that name), or the process cannot be started
StopResults == { "stopped", "nonzero", "oserror" }

\* run_command_silent(cmd, check): the exception subprocess.run raises
run_command_silent(result, check) ==
    IF result = "oserror" THEN "OSError"
    ELSE IF check /\ result = "nonzero" THEN "CalledProcessError"
    ELSE "none"

\* DockerService.stop_container: the exception it raises
stop_container(result, ignore_errors) ==
    IF run_command_silent(result, FALSE) # "none" /\ ~ignore_errors
    THEN "DockerError" ELSE "none"

\* the exceptions a step inside the scope ends with
ScopeExceptions == { "CommandExecutionError", "OSError", "KeyboardInterrupt" }

\* the ignore_errors each scope hands to stop_container on exit
ExitIgnoresErrors(scope) == scope = "managed_container"

CtInputs ==
    [entry : { "managed_container", "build_initramfs", "stop_container" },
     first_stop : StopResults, run : { "started", "failed" },
     body : { "none" } \cup ScopeExceptions,
     stop : StopResults, ignore_errors : BOOLEAN]

NoScope == [log |-> <<>>, running_containers |-> {}, body_exc |-> "none"]

container_name == "nano-vm-rootfs"

nonContainerVars == <<env, selfVars, hostVars, log, outVars, templateVars, releaseVars,
                      launchVars, passwdVars, cliVars, build_in, cfg_in, cfg_out,
                      rc_in, rc_out, pkg_in, pkg_out, img_in, img_out, runs, shared>>

InitContainer ==
    /\ ct_in \in CtInputs
    /\ ct_in.entry = "stop_container" =>
           /\ ct_in.first_stop = "stopped" /\ ct_in.run = "started"
           /\ ct_in.body = "none"
    /\ ct_in.entry # "stop_container" => ~ct_in.ignore_errors
    /\ pc = IF ct_in.entry = "stop_container" THEN "ct_stop" ELSE "ct_start"
    /\ exc = "none"
    /\ ct_out = NoScope
    /\ IdleGuest
    /\ IdleTemplate
    /\ IdleRelease
    /\ IdleLaunch
    /\ IdlePasswd
    /\ IdleCli
    /\ IdleBuild
    /\ IdleVmConfig
    /\ IdleRunCommand
    /\ pkg_in = NoCall /\ pkg_out = NoCall
    /\ img_in = NoCall /\ img_out = NoCall
    /\ runs = NoCall /\ shared = NoCall

\* DockerService.run_container: stop a container of that name, errors
\* ignored, then `docker run -d`
CtRunContainer ==
    /\ pc = "ct_start"
    /\ LET first == stop_container(ct_in.first_stop, TRUE)
       IN IF ct_in.run = "started"
          THEN /\ ct_out' = [ct_out EXCEPT !.log = @ \o << "stop", "run" >>,
                                           !.running_containers = @ \cup {container_name}]
               /\ exc' = first
               /\ pc' = "ct_body"
          ELSE /\ ct_out' = [ct_out EXCEPT !.log = @ \o << "stop", "run" >>]
               /\ exc' = "DockerError"
               /\ pc' = "ct_done"
    /\ UNCHANGED <<ct_in, nonContainerVars>>

\* the steps inside the scope: the body of the with statement, or steps 3 to
\* 6 of build_initramfs
CtBody ==
    /\ pc = "ct_body"
    /\ exc' = ct_in.body
    /\ ct_out' = [ct_out EXCEPT !.body_exc = ct_in.body]
    /\ pc' = "ct_exit"
    /\ UNCHANGED <<ct_in, nonContainerVars>>

\* the finally clause of the scope
CtExit ==
    /\ pc = "ct_exit"
    /\ LET raised == stop_container(ct_in.stop, ExitIgnoresErrors(ct_in.entry))
       IN /\ exc' = IF raised # "none" THEN raised ELSE exc
          /\ ct_out' = [ct_out EXCEPT
                          !.log = Append(@, "stop"),
                          !.running_containers =
                              IF run_command_silent(ct_in.stop, FALSE) = "none"
                              THEN @ \ {container_name} ELSE @]
    /\ pc' = "ct_done"
    /\ UNCHANGED <<ct_in, nonContainerVars>>

\* a call of stop_container by itself
CtStop ==
    /\ pc = "ct_stop"
    /\ exc' = stop_container(ct_in.stop, ct_in.ignore_errors)
    /\ ct_out' = [ct_out EXCEPT !.log = Append(@, "stop")]
    /\ pc' = "ct_done"
    /\ UNCHANGED <<ct_in, nonContainerVars>>

NextContainer ==
    \/ CtRunContainer
    \/ CtBody
    \/ CtExit
    \/ CtStop

SpecContainer == InitContainer /\ [][NextContainer]_vars

\* the scope has started its container and has been left
ScopeLeft ==
    /\ pc = "ct_done"
    /\ ct_in.entry \in { "managed_container", "build_initramfs" }
    /\ ct_in.run = "started"

\* C21: once the container of a scope has been started, a stop is issued on
\* every exit path of the scope, and a failure of that stop does not replace
\* the error of the step that failed.
C21_StopOnEveryExit ==
    ScopeLeft =>
        /\ ct_out.log = << "stop", "run", "stop" >>
        /\ ct_in.body # "none" => exc = ct_in.body

\* C22: stop_container(name, ignore_errors=False) raises a DockerError
\* whenever the stop command fails; with ignore_errors=True it never raises.
C22_StopRaisesUnlessIgnored ==
    (pc = "ct_done" /\ ct_in.entry = "stop_container") =>
        /\ (~ct_in.ignore_errors /\ ct_in.stop # "stopped") => exc = "DockerError"
        /\ ct_in.ignore_errors => exc = "none"

(***************************************************************************)
(* SNPBuildOrchestrator.create_release_package.  A directory is the set of *)
(* the relative paths in it; a path string is a sequence of pieces.         *)
(***************************************************************************)
\* what the build directory can hold besides the installation directory
BuildDirFiles == { "source-commit.kernel", "stable-commits", "kvm.conf",
                   "linux/linux-image-guest-6.9.deb", "linux/linux-image-host-6.9.deb",
                   "linux/kernel-6.9.rpm" }

\* what an earlier call of the same day left in the output directory
StaleOutput == { "linux/guest/", "usr/local/bin/old-qemu", "kvm.conf" }

ReleaseDates == { "2025-01-01", "2025-12-31" }

PkgInputs ==
    [entry : { "create_release_package" },
     build_dir : { ".", "/home/hb/build/SNP_PACKAGE" },
     release_date : ReleaseDates,
     build_files : SUBSET BuildDirFiles,
     install_dir_exists : BOOLEAN,
     output_exists : BOOLEAN,
     tarball_exists : BOOLEAN,
     debian_based : BOOLEAN,
     install_sh : BOOLEAN,
     tar : { "created", "failed" }]

\* output_dir = f"snp-release-{release_date}"
output_dir(in) == << "snp-release-", in.release_date >>

\* os.path.join(build_dir, output_dir)
output_path(in) == << in.build_dir, "/" >> \o output_dir(in)

\* f"{output_path}.tar.gz"
tarball_path(in) == output_path(in) \o << ".tar.gz" >>

\* the mutation that keeps the output directory of the earlier call
fresh_output_kept(old) == old \cup { "linux/guest/", "linux/host/", "usr/" }

\* shutil.rmtree(output_path) when it exists, then the three ensure_directory
fresh_output(old) == { "linux/guest/", "linux/host/", "usr/" }

\* the files the call copies into the output directory
copied_files(in) ==
    (IF in.install_dir_exists THEN { "usr/local/" } \cup { "usr/local/bin/qemu-system-x86_64", "usr/local/share/qemu/OVMF.fd" } ELSE {})
    \cup ({ "source-commit.kernel", "kvm.conf" } \cap in.build_files)
    \cup (IF "stable-commits" \in in.build_files THEN { "source-config" } ELSE {})
    \cup (IF in.debian_based
          THEN (IF "linux/linux-image-guest-6.9.deb" \in in.build_files
                THEN { "linux/guest/linux-image-guest-6.9.deb" } ELSE {})
               \cup (IF "linux/linux-image-host-6.9.deb" \in in.build_files
                     THEN { "linux/host/linux-image-host-6.9.deb" } ELSE {})
          ELSE (IF "linux/kernel-6.9.rpm" \in in.build_files
                THEN { "linux/kernel-6.9.rpm" } ELSE {}))
    \cup (IF in.install_sh THEN { "install.sh" } ELSE {})

NoPackage == [output |-> {}, tarball |-> [exists |-> FALSE, files |-> {}, created |-> FALSE],
              returned |-> NoValue]

nonPackageVars == <<env, selfVars, hostVars, log, outVars, templateVars, releaseVars,
                    launchVars, passwdVars, cliVars, build_in, cfg_in, cfg_out,
                    rc_in, rc_out, ct_in, ct_out, img_in, img_out, runs, shared>>

InitPackage ==
    /\ pc = "pkg_prepare"
    /\ exc = "none"
    /\ pkg_in \in PkgInputs
    /\ pkg_out = [NoPackage EXCEPT
                    !.output = IF pkg_in.output_exists THEN StaleOutput ELSE {},
                    !.tarball = [exists |-> pkg_in.tarball_exists,
                                 files |-> IF pkg_in.tarball_exists THEN StaleOutput ELSE {},
                                 created |-> FALSE]]
    /\ IdleGuest
    /\ IdleTemplate
    /\ IdleRelease
    /\ IdleLaunch
    /\ IdlePasswd
    /\ IdleCli
    /\ IdleBuild
    /\ IdleVmConfig
    /\ IdleRunCommand
    /\ ct_in = NoCall /\ ct_out = NoCall
    /\ img_in = NoCall /\ img_out = NoCall
    /\ runs = NoCall /\ shared = NoCall

\* lines 441-447: the output directory is removed and made again
PkgPrepareOutput ==
    /\ pc = "pkg_prepare"
    /\ pkg_out' = [pkg_out EXCEPT !.output = fresh_output(@)]
    /\ pc' = "pkg_copy"
    /\ UNCHANGED <<exc, pkg_in, nonPackageVars>>

\* lines 449-485: the copies
PkgCopy ==
    /\ pc = "pkg_copy"
    /\ pkg_out' = [pkg_out EXCEPT !.output = @ \cup copied_files(pkg_in)]
    /\ pc' = "pkg_tar"
    /\ UNCHANGED <<exc, pkg_in, nonPackageVars>>

\* lines 487-492: tar zcf, then the path is returned
PkgTar ==
    /\ pc = "pkg_tar"
    /\ IF pkg_in.tar = "created"
       THEN /\ pkg_out' = [pkg_out EXCEPT
                             !.tarball = [exists |-> TRUE, files |-> pkg_out.output,
                                          created |-> TRUE],
                             !.returned = Returned(tarball_path(pkg_in))]
            /\ exc' = exc
       ELSE /\ exc' = "CommandExecutionError"
            /\ pkg_out' = pkg_out
    /\ pc' = "pkg_done"
    /\ UNCHANGED <<pkg_in, nonPackageVars>>

NextPackage ==
    \/ PkgPrepareOutput
    \/ PkgCopy
    \/ PkgTar

SpecPackage == InitPackage /\ [][NextPackage]_vars

\* the files under usr/local
UsrLocal(files) == { f \in files : f \in { "usr/local/", "usr/local/bin/qemu-system-x86_64",
                                           "usr/local/share/qemu/OVMF.fd",
                                           "usr/local/bin/old-qemu" } }

\* C24: create_release_package returns <build_dir>/snp-release-<date>.tar.gz,
\* an archive made in this call from an output directory emptied and rebuilt
\* in this call, with nothing of an earlier call in it; also when install_dir
\* does not exist, the package then lacking the usr/local files only.
C24_FreshReleasePackage ==
    (pc = "pkg_done" /\ pkg_in.tar = "created") =>
        /\ exc = "none"
        /\ pkg_out.returned
               = Returned(<< pkg_in.build_dir, "/", "snp-release-", pkg_in.release_date,
                             ".tar.gz" >>)
        /\ pkg_out.tarball.exists /\ pkg_out.tarball.created
        /\ pkg_out.tarball.files = pkg_out.output
        /\ "usr/local/bin/old-qemu" \notin pkg_out.tarball.files
        /\ "kvm.conf" \in pkg_out.tarball.files => "kvm.conf" \in pkg_in.build_files
        /\ { "linux/guest/", "linux/host/", "usr/" } \subseteq pkg_out.tarball.files
        /\ ~pkg_in.install_dir_exists => UsrLocal(pkg_out.tarball.files) = {}
        /\ pkg_in.install_dir_exists => UsrLocal(pkg_out.tarball.files) # {}

\* a call that found the output directory and the archive of an earlier call
\* of the same day, and no installation directory, has returned
C24_Witness ==
    /\ pc = "pkg_done"
    /\ pkg_in.tar = "created"
    /\ pkg_in.output_exists
    /\ pkg_in.tarball_exists
    /\ ~pkg_in.install_dir_exists
    /\ "kvm.conf" \notin pkg_in.build_files
    /\ pkg_out.returned.returned

(***************************************************************************)
(* GuestSetup._create_output_image.  Sizes are counted in MiB; a size      *)
(* token is a number and the unit letters that follow it.                  *)
(***************************************************************************)
MaxSizeNumber == 12

\* MiB in one unit
UnitMiB(unit) ==
    CASE unit = "M" -> 1
      [] unit = "G" -> 1024
      [] unit = "T" -> 1048576

Units == { "M", "G", "T" }

\* the virtual sizes of the source images: whole numbers of one unit
SourceSizes == [number : 1..MaxSizeNumber, unit : Units]

\* the `virtual size:` line of qemu-img info, split at blanks: before QEMU 4.1
\* `virtual size: 10G (10737418240 bytes)`, since then
\* `virtual size: 10 GiB (10737418240 bytes)`
virtual_size_line(size, style) ==
    IF style = "short"
    THEN << "virtual", "size:", [number |-> size.number, suffix |-> << size.unit >>],
            "(bytes)" >>
    ELSE << "virtual", "size:", [number |-> size.number, suffix |-> <<>>],
            size.unit, "(bytes)" >>

\* size = tokens[2] + "G"
output_size(tokens) == [tokens[3] EXCEPT !.suffix = @ \o << "G" >>]

\* the size qemu-img create understands, in MiB: a number and one unit
\* letter; 0 when it rejects the argument
qemu_img_size(arg) ==
    IF Len(arg.suffix) = 1 /\ arg.suffix[1] \in Units
    THEN arg.number * UnitMiB(arg.suffix[1])
    ELSE 0

ImgInputs ==
    [entry : { "_create_output_image" }, size : SourceSizes,
     style : { "short", "iec" }, info : { "printed", "failed", "no_size_line" }]

NoImage == [size |-> NoValue, created |-> FALSE, mib |-> 0]

nonImageVars == <<env, selfVars, hostVars, log, outVars, templateVars, releaseVars,
                  launchVars, passwdVars, cliVars, build_in, cfg_in, cfg_out,
                  rc_in, rc_out, ct_in, ct_out, pkg_in, pkg_out, runs, shared>>

InitImage ==
    /\ pc = "img_info"
    /\ exc = "none"
    /\ img_in \in ImgInputs
    /\ img_out = NoImage
    /\ IdleGuest
    /\ IdleTemplate
    /\ IdleRelease
    /\ IdleLaunch
    /\ IdlePasswd
    /\ IdleCli
    /\ IdleBuild
    /\ IdleVmConfig
    /\ IdleRunCommand
    /\ ct_in = NoCall /\ ct_out = NoCall
    /\ pkg_in = NoCall /\ pkg_out = NoCall
    /\ runs = NoCall /\ shared = NoCall

\* lines 220-237: qemu-img info and the search for the size
ImgInfo ==
    /\ pc = "img_info"
    /\ IF img_in.info = "printed"
       THEN /\ img_out' = [img_out EXCEPT
                             !.size = Returned(output_size(
                                          virtual_size_line(img_in.size, img_in.style)))]
            /\ pc' = "img_create"
            /\ exc' = exc
       ELSE /\ exc' = "GuestSetupError"
            /\ pc' = "img_done"
            /\ img_out' = img_out
    /\ UNCHANGED <<img_in, nonImageVars>>

\* line 239: qemu-img create -f qcow2 dst_image size
ImgCreate ==
    /\ pc = "img_create"
    /\ LET mib == qemu_img_size(img_out.size.value)
       IN IF mib > 0
          THEN /\ img_out' = [img_out EXCEPT !.created = TRUE, !.mib = mib]
               /\ exc' = exc
          ELSE /\ exc' = "CommandExecutionError"
               /\ img_out' = img_out
    /\ pc' = "img_done"
    /\ UNCHANGED <<img_in, nonImageVars>>

NextImage ==
    \/ ImgInfo
    \/ ImgCreate

SpecImage == InitImage /\ [][NextImage]_vars

\* C27: whatever unit qemu-img info uses to print the virtual size of the
\* source image, the destination image created has the same virtual size.
C27_SameVirtualSize ==
    (pc = "img_done" /\ img_in.info = "printed") =>
        /\ img_out.created
        /\ img_out.mib = img_in.size.number * UnitMiB(img_in.size.unit)

(***************************************************************************)
(* Two setup_guest runs on one host.  Both use /dev/nbd0 for the source    *)
(* and /dev/nbd1 for the destination; each has its own scratch folders.    *)
(***************************************************************************)
RunIds == { "A", "B" }

Other(r) == CHOOSE o \in RunIds : o # r

\* self.src_device, self.dst_device
src_device == "nbd0"

dst_device == "nbd1"

NewRun == [pc |-> "create_output_image", exc |-> "none", attached |-> {}]

FreeHost == [nbd_loaded |-> FALSE,
             holder |-> [d \in {src_device, dst_device} |-> "none"],
             mounts |-> {}]

nonOverlapVars == <<env, selfVars, hostVars, log, outVars, templateVars, releaseVars,
                    launchVars, passwdVars, cliVars, build_in, cfg_in, cfg_out,
                    rc_in, rc_out, ct_in, ct_out, pkg_in, pkg_out, img_in, img_out>>

InitOverlap ==
    /\ pc = "overlap"
    /\ exc = "none"
    /\ runs = [r \in RunIds |-> NewRun]
    /\ shared = FreeHost
    /\ IdleGuest
    /\ IdleTemplate
    /\ IdleRelease
    /\ IdleLaunch
    /\ IdlePasswd
    /\ IdleCli
    /\ IdleBuild
    /\ IdleVmConfig
    /\ IdleRunCommand
    /\ ct_in = NoCall /\ ct_out = NoCall
    /\ pkg_in = NoCall /\ pkg_out = NoCall
    /\ img_in = NoCall /\ img_out = NoCall

\* the step of run r fails: setup() raises GuestSetupError and __exit__ follows
Fails(r) == runs' = [runs EXCEPT ![r].pc = "exit", ![r].exc = "GuestSetupError"]

\* _create_output_image works on the run's own image files
OvCreateOutputImage(r) ==
    /\ runs[r].pc = "create_output_image"
    /\ runs' = [runs EXCEPT ![r].pc = "initialize_nbd"]
    /\ UNCHANGED <<pc, exc, shared, nonOverlapVars>>

\* _initialize_nbd: modprobe nbd max_part=8
OvModprobe(r) ==
    /\ runs[r].pc = "initialize_nbd"
    /\ shared' = [shared EXCEPT !.nbd_loaded = TRUE]
    /\ runs' = [runs EXCEPT ![r].pc = "connect_src"]
    /\ UNCHANGED <<pc, exc, nonOverlapVars>>

\* qemu-nbd --connect=<device> <image>: refused when the module is gone or
\* the device is held
Connect(r, device, next) ==
    IF shared.nbd_loaded /\ shared.holder[device] = "none"
    THEN /\ shared' = [shared EXCEPT !.holder[device] = r]
         /\ runs' = [runs EXCEPT ![r].pc = next, ![r].attached = @ \cup {device}]
    ELSE /\ Fails(r)
         /\ shared' = shared

OvConnectSrc(r) ==
    /\ runs[r].pc = "connect_src"
    /\ Connect(r, src_device, "connect_dst")
    /\ UNCHANGED <<pc, exc, nonOverlapVars>>

OvConnectDst(r) ==
    /\ runs[r].pc = "connect_dst"
    /\ Connect(r, dst_device, "mkfs")
    /\ UNCHANGED <<pc, exc, nonOverlapVars>>

\* the devices the run attached are still its own
Intact(r) == \A d \in runs[r].attached : shared.holder[d] = r

\* a command of run r on its devices: the run moves on when the devices are
\* still attached for it and fails otherwise
OnDevices(r, next, mounted) ==
    IF Intact(r) /\ shared.nbd_loaded
    THEN /\ shared' = [shared EXCEPT !.mounts = mounted]
         /\ runs' = [runs EXCEPT ![r].pc = next]
    ELSE /\ Fails(r)
         /\ shared' = shared

\* mkfs.ext4 on the destination device
OvMkfs(r) ==
    /\ runs[r].pc = "mkfs"
    /\ OnDevices(r, "mount_src", shared.mounts)
    /\ UNCHANGED <<pc, exc, nonOverlapVars>>

\* mount <root fs device> <src_folder>
OvMountSrc(r) ==
    /\ runs[r].pc = "mount_src"
    /\ OnDevices(r, "mount_dst", shared.mounts \cup {<<r, "src_folder">>})
    /\ UNCHANGED <<pc, exc, nonOverlapVars>>

\* mount /dev/nbd1 <dst_folder>
OvMountDst(r) ==
    /\ runs[r].pc = "mount_dst"
    /\ OnDevices(r, "copy", shared.mounts \cup {<<r, "dst_folder">>})
    /\ UNCHANGED <<pc, exc, nonOverlapVars>>

\* copy, workload overlay and preparation of the verity layout
OvCopy(r) ==
    /\ runs[r].pc = "copy"
    /\ OnDevices(r, "umount", shared.mounts)
    /\ UNCHANGED <<pc, exc, nonOverlapVars>>

\* umount -q of both folders
OvUnmount(r) ==
    /\ runs[r].pc = "umount"
    /\ OnDevices(r, "measure", { m \in shared.mounts : m[1] # r })
    /\ UNCHANGED <<pc, exc, nonOverlapVars>>

\* _compute_hash_tree reads the destination device
OvMeasure(r) ==
    /\ runs[r].pc = "measure"
    /\ OnDevices(r, "exit", shared.mounts)
    /\ UNCHANGED <<pc, exc, nonOverlapVars>>

\* _cleanup: the run's folders are unmounted and removed; /dev/nbd0 and
\* /dev/nbd1 are disconnected when the device nodes exist, that is when the
\* module is loaded; modprobe -r nbd succeeds unless a mount holds a device
OvCleanup(r) ==
    /\ runs[r].pc = "exit"
    /\ LET left == { m \in shared.mounts : m[1] # r }
       IN shared' = [shared EXCEPT
                       !.mounts = left,
                       !.holder = IF shared.nbd_loaded
                                  THEN [d \in {src_device, dst_device} |-> "none"]
                                  ELSE @,
                       !.nbd_loaded = @ /\ left # {}]
    /\ runs' = [runs EXCEPT ![r].pc = "done", ![r].attached = {}]
    /\ UNCHANGED <<pc, exc, nonOverlapVars>>

NextOverlap ==
    \E r \in RunIds :
        \/ OvCreateOutputImage(r)
        \/ OvModprobe(r)
        \/ OvConnectSrc(r)
        \/ OvConnectDst(r)
        \/ OvMkfs(r)
        \/ OvMountSrc(r)
        \/ OvMountDst(r)
        \/ OvCopy(r)
        \/ OvUnmount(r)
        \/ OvMeasure(r)
        \/ OvCleanup(r)

SpecOverlap == InitOverlap /\ [][NextOverlap]_vars

\* C28: when two runs overlap, the run whose attach fails reports the
\* failure, and its cleanup leaves the other run's attachments, mounts and
\* the loaded module untouched: a run that has not reached its own cleanup
\* still holds every device it attached, with the module loaded.
C28_CleanupReleasesOwnOnly ==
    pc = "overlap" =>
        \A r \in RunIds :
            (runs[r].pc # "done" /\ runs[r].attached # {}) =>
                /\ shared.nbd_loaded
                /\ \A d \in runs[r].attached : shared.holder[d] = r

(***************************************************************************)
(* Claims about GuestSetup                                                 *)
(***************************************************************************)
\* the run went through __enter__ and ended by an error or an interruption
AbortedRun == pc = "terminal" /\ exc # "none" /\ resources_initialized

\* C1: once setup_guest has exited by an error or an interruption raised at
\* any stage of setup(), the nbd module is unloaded, no NBD device is
\* attached, nothing is mounted at the scratch directories, the snpguard_root
\* mapper is gone and no logical volume is active that was not active before
\* the run.
C1_HostRestoredAfterAbort ==
    AbortedRun =>
        /\ ~nbd_loaded
        /\ nbd_attached = {}
        /\ mounts = {}
        /\ ~mapper
        /\ lv_active \subseteq Paths(env.host_lvs)

SecureSteps == { "ssh_disable", "ssh_mask", "getty_tty_disable_mask",
                 "serial_getty_disable_mask" }

WorkloadUnitSteps == { "rsync_hyperbeam_service", "enable_hyperbeam_service" }

DebugSteps == { "root_password", "sshd_permit_root_login", "ssh_enable" }

HardeningDone == "cp_root_ro_root" \in Range(log)

\* C9: a run applies the hardening procedure that the build's debug option
\* selects and no step of the other one: with debug false no debug-mode step
\* ever runs and, once _prepare_verity_fs has completed, every secure-mode
\* step and the workload unit installation have run; with debug true neither
\* a secure-mode step nor the workload unit installation ever runs and, once
\* _prepare_verity_fs has completed, every debug-mode step has run.
C9_OneHardeningProcedure ==
    /\ ~env.debug => /\ Range(log) \cap DebugSteps = {}
                     /\ HardeningDone =>
                            (SecureSteps \cup WorkloadUnitSteps) \subseteq Range(log)
    /\ env.debug => /\ Range(log) \cap (SecureSteps \cup WorkloadUnitSteps) = {}
                    /\ HardeningDone => DebugSteps \subseteq Range(log)

C9_Witness == ~env.debug /\ HardeningDone /\ pc = "unmount"

\* the characters that follow the verity_roothash= word of a command line
RoothashOf(kernel_cmdline) ==
    LET i == CHOOSE j \in 1..Len(kernel_cmdline) : kernel_cmdline[j] = RoothashKey
    IN SubSeq(kernel_cmdline, i + 1, Len(kernel_cmdline))

\* C3: once build_guest_image has completed successfully, the descriptor
\* exists, the verity_roothash value of its kernel_cmdline equals the content
\* of the root hash file, and that content equals the value setup() returned.
C3_DescriptorCarriesRootHash ==
    pc = "built" =>
        /\ vm_config_file.exists
        /\ root_hash_file.exists
        /\ ret.returned
        /\ RoothashKey \in Range(vm_config_file.kernel_cmdline)
        /\ RoothashOf(vm_config_file.kernel_cmdline) = root_hash_file.content
        /\ root_hash_file.content = ret.value

C3_Witness == pc = "built" /\ ret.value = <<"a", "7">>

\* the commands _cleanup runs
CleanupCommands ==
    { "cleanup_umount_src", "cleanup_rmtree_src", "cleanup_umount_dst", "cleanup_rmtree_dst",
      "cleanup_luks_close", "cleanup_lvchange_an", "cleanup_vgchange_an",
      "cleanup_disconnect_nbd0", "cleanup_disconnect_nbd1", "cleanup_sleep",
      "cleanup_modprobe_r_nbd" }

IsStageCommand(c) == c \notin CleanupCommands

\* the commands the stages of setup() have completed, in order
StageLog == SelectSeq(log, IsStageCommand)

\* _cleanup has run to its end
CleanupRan == "cleanup_modprobe_r_nbd" \in Range(log)

\* a keyboard interrupt arrived while rsync was copying the filesystem: the
\* last command completed by a stage is the mount of the destination
InterruptedInCopy ==
    /\ exc = "KeyboardInterrupt"
    /\ StageLog # <<>>
    /\ StageLog[Len(StageLog)] = "mount_dst"

\* C11: when a keyboard interrupt arrives in the copy stage of setup(), the
\* run goes to __exit__ with the interrupt still propagating (it is not
\* converted into a GuestSetupError), the copy is not run again and no later
\* stage runs, _cleanup has run before the process exits, and the process
\* exits with status 130.
C11_InterruptDuringCopy ==
    InterruptedInCopy =>
        /\ pc \in {"exit", "terminal", "exited"}
        /\ "rsync_filesystem" \notin Range(log)
        /\ pc \in {"terminal", "exited"} => (CleanupRan /\ folders = {} /\ mounts = {})
        /\ pc = "exited" => exit_code = Exited(130)

C11_Witness == InterruptedInCopy /\ pc = "exited" /\ CleanupRan

\* the external command of a stage of setup() has failed: a command whose
\* failure raises, or veritysetup inside the pipeline of _compute_hash_tree
StageCommandFailed ==
    \/ exc = "GuestSetupError"
    \/ "veritysetup_failed" \in Range(log)

\* C12: when the external command of a stage of setup() has failed,
\* setup_guest raises a GuestSetupError (error code 9, the exit status of the
\* process), setup() returns no value, no later stage runs and no stage runs
\* again, and _cleanup has run once __exit__ is over.
C12_StageFailureRaises ==
    StageCommandFailed =>
        /\ exc = "GuestSetupError"
        /\ ~ret.returned
        /\ pc \in {"exit", "terminal", "exited"}
        /\ \A i, j \in 1..Len(log) : (i # j) => log[i] # log[j]
        /\ (pc \in {"terminal", "exited"} /\ resources_initialized) => CleanupRan
        /\ pc = "exited" => exit_code = Exited(9)

\* C13: at whatever stage a run ends, every logical volume that the run
\* hands to lvchange -an, or that belongs to a volume group it hands to
\* vgchange -an, is a volume of the source image; no volume that was active
\* on the host before the run is deactivated.
C13_OnlyImageVolumesDeactivated ==
    /\ lv_deactivated \subseteq Paths(env.image_lvs)
    /\ Paths(env.host_lvs) \cap lv_deactivated = {}

\* _cleanup has been invoked: by __exit__, or by __enter__ when it failed
CleanupInvoked == pc \in {"terminal", "get_hashes", "built", "failed", "exited"}

\* one more invocation of _cleanup would leave the host and the scratch
\* directories as they are
CleanupChangesNothing ==
    /\ folders = {}
    /\ mounts \ folders = mounts
    /\ ~mapper
    /\ lv_active \ { p \in UnmountLvmTargets : ~Busy(p) } = lv_active
    /\ nbd_attached = {}
    /\ ~nbd_loaded

\* C14: after _cleanup has been invoked, whatever prefix of the acquisition
\* steps the run had completed (a failure inside __enter__ after the first
\* temporary directory included), no temporary directory of the run exists,
\* nothing is mounted at them, no NBD device is attached, the nbd module is
\* unloaded, and another invocation would change nothing.
C14_CleanupReleasesEverything ==
    CleanupInvoked =>
        /\ folders = {}
        /\ mounts = {}
        /\ nbd_attached = {}
        /\ ~nbd_loaded
        /\ CleanupChangesNothing

\* the resources of a run in the order in which the run acquires them, each
\* with the command that acquires it and the command of _cleanup that
\* releases it; the temporary directories are acquired by __enter__
Resources ==
    << [acquire |-> "mkdtemp_src", release |-> "cleanup_rmtree_src"],
       [acquire |-> "mkdtemp_dst", release |-> "cleanup_rmtree_dst"],
       [acquire |-> "modprobe_nbd", release |-> "cleanup_modprobe_r_nbd"],
       [acquire |-> "connect_src", release |-> "cleanup_disconnect_nbd0"],
       [acquire |-> "connect_dst", release |-> "cleanup_disconnect_nbd1"],
       [acquire |-> "mount_src", release |-> "cleanup_umount_src"],
       [acquire |-> "mount_dst", release |-> "cleanup_umount_dst"] >>

Acquired(r) ==
    IF r.acquire \in {"mkdtemp_src", "mkdtemp_dst"} THEN resources_initialized
    ELSE r.acquire \in Range(log)

\* the positions of a command in the log
LogPositions(c) == { i \in 1..Len(log) : log[i] = c }

Before(c, d) == \A i \in LogPositions(c), j \in LogPositions(d) : i < j

Unmounts == {"cleanup_umount_src", "cleanup_umount_dst"}

Disconnects == {"cleanup_disconnect_nbd0", "cleanup_disconnect_nbd1"}

StagesToCopy ==
    << "qemu_img_info", "qemu_img_create", "check_lvm", "modprobe_nbd", "connect_src",
       "connect_dst", "find_root_fs", "mkfs_ext4_dst", "mount_src", "mount_dst",
       "rsync_filesystem" >>

\* workload overlay, then hardening
OverlayAndHardening(secure) ==
    IF secure
    THEN << "rsync_hb", "rsync_hyperbeam_service", "enable_hyperbeam_service",
            "rm_ssh_host_keys", "ssh_disable", "ssh_mask", "passwd_nologin",
            "getty_tty_disable_mask", "serial_getty_disable_mask", "grub_console_none",
            "tty_nodes_disabled", "dmesg_console_off" >>
    ELSE << "rsync_hb", "rm_ssh_host_keys", "root_password", "sshd_permit_root_login",
            "ssh_enable" >>

\* layout remap, unmount, measure
StagesFromRemap ==
    << "rm_tmp", "mv_root_ro", "mv_etc_ro", "mv_var_ro", "mkdir_home_etc_var_tmp",
       "cp_root_ro_root", "umount_src", "umount_dst", "veritysetup_format",
       "write_root_hash" >>

StageOrder(secure) == StagesToCopy \o OverlayAndHardening(secure) \o StagesFromRemap

SetupCommands ==
    Range(StageOrder(TRUE)) \cup Range(StageOrder(FALSE)) \cup { "veritysetup_failed" }

IsSetupCommand(c) == c \in SetupCommands

\* a veritysetup that failed has run all the same
Ran(c) == IF c = "veritysetup_failed" THEN "veritysetup_format" ELSE c

\* C25: setup() performs its fifteen stages in order: what it has run so far
\* is always an initial part of the ordered list of stage commands, so a
\* stage starts only after every earlier stage has completed and nothing
\* runs twice; the host volume count precedes the source attach, and the
\* overlay and the hardening precede the renaming of root, etc and var.
C25_StagesInOrder ==
    LET done == SelectSeq(log, IsSetupCommand)
        order == StageOrder(SecureSelected(self_debug))
    IN /\ Len(done) <= Len(order)
       /\ \A i \in 1..Len(done) : Ran(done[i]) = order[i]

\* a secure run has gone through all fifteen stages
C25_Witness ==
    /\ pc = "terminal"
    /\ exc = "none"
    /\ SecureSelected(self_debug)
    /\ Len(SelectSeq(log, IsSetupCommand)) = Len(StageOrder(TRUE))
\* C26: as the build_guest pipeline invokes it (non_interactive not passed),
\* setup_guest never waits for user input: when discovery finds no usable
\* device the run ends with a GuestSetupError.
C26_NeverWaitsForInput ==
    ~env.non_interactive => pc # "prompt"

\* the commands of a run that leave the content of the destination device
\* alone once its filesystem is unmounted
LeavesDestinationAlone == CleanupCommands \cup { "write_root_hash" }

\* the steps build_guest_image takes once setup_guest has returned
AfterTheRun == { "setup_vm_config", "get_hashes" }

\* C29: veritysetup format starts only after the destination filesystem has
\* been unmounted, and from the measurement to the end of the run, cleanup
\* included, the destination stays unmounted and no command writes to it.
C29_MeasuredContentIsFinal ==
    LET run == SelectSeq(log, LAMBDA c : c \notin AfterTheRun)
        measured == { i \in 1..Len(run) : Ran(run[i]) = "veritysetup_format" }
    IN /\ pc = "compute_hash_tree" => "dst" \notin mounts
       /\ \A i \in measured :
             /\ "dst" \notin mounts
             /\ \E j \in 1..(i - 1) : run[j] = "umount_dst"
             /\ \A k \in (i + 1)..Len(run) : run[k] \in LeavesDestinationAlone

C29_Witness ==
    /\ pc = "terminal"
    /\ exc = "none"
    /\ CleanupRan
    /\ "veritysetup_format" \in Range(log)
    /\ "cleanup_rmtree_dst" \in Range(log)

\* C30: when setup_guest returns normally, the value returned and the content
\* of the root-hash file are the same non-empty hexadecimal string, taken
\* from the output of a veritysetup format that exited successfully; when
\* veritysetup format fails, the root-hash file is not written.
C30_RootHashFromSuccessfulFormat ==
    /\ (ret.returned /\ exc = "none") =>
          /\ root_hash_file.exists
          /\ root_hash_file.content = ret.value
          /\ ret.value \in HexStrings
          /\ "veritysetup_format" \in Range(log)
    /\ "veritysetup_failed" \in Range(log) => ~root_hash_file.exists

====
